---------------------------- MODULE Spec2Model ----------------------------
(***************************************************************************)
(* Lead validation: the fraud-detection engine (src/validation/            *)
(* fraud_detection.py), the data-quality rules engine and the score        *)
(* fusion (src/validation/rules.py), the description parser               *)
(* (src/utils/validation_parser.py), the batch pipeline                    *)
(* (lead_validation_etl.py) and the dashboard's summary query              *)
(* (src/dashboard/data_loader.py).                                         *)
(*                                                                         *)
(* Python strings are sequences of one-character strings; Python floats    *)
(* are exact rationals [n, d] in lowest terms (every constant of the code  *)
(* is a decimal fraction, so the arithmetic below is the arithmetic of the *)
(* code up to the rounding of IEEE doubles).                               *)
(***************************************************************************)
EXTENDS Integers, Sequences, FiniteSets, TLC

VARIABLES
    lead,       \* the lead_data dict handed to the engines
    pc,         \* "start" | "fraud" | "validated" | "status" | "quality" |
                \* "parse" | "etl" | "saved" | "loaded"
    fraud,      \* the value of calculate_fraud_score(lead), once called
    result,     \* the value of validate_lead(lead), once called
    probes,     \* direct calls of a function: {[input, output]}
    etl         \* the LeadValidationETL object and its parsed_validations table

vars == <<lead, pc, fraud, result, probes, etl>>

-----------------------------------------------------------------------------
(* Python values: a dict key may be missing, hold None, or hold a str.     *)

PyNone == [kind |-> "none", s |-> <<>>]
KeyMissing == [kind |-> "missing", s |-> <<>>]
Str(s) == [kind |-> "str", s |-> s]

\* dict.get(key): None when the key is missing
Get(d, key) == IF d[key].kind = "missing" THEN PyNone ELSE d[key]

\* dict.get(key, ''): the default only when the key is missing
GetOrEmpty(d, key) == IF d[key].kind = "missing" THEN Str(<<>>) ELSE d[key]

\* truthiness of None / str
Truthy(v) == v.kind = "str" /\ v.s # <<>>

-----------------------------------------------------------------------------
(* str methods and the re functions the engines use                        *)

UpperChars == <<"A","B","C","D","E","F","G","H","I","J","K","L","M",
                "N","O","P","Q","R","S","T","U","V","W","X","Y","Z">>
LowerChars == <<"a","b","c","d","e","f","g","h","i","j","k","l","m",
                "n","o","p","q","r","s","t","u","v","w","x","y","z">>
Digits == {"0","1","2","3","4","5","6","7","8","9"}
Whitespace == {" ", "\t", "\n", "\r"}

LowerChar(c) ==
    IF \E i \in 1..26 : UpperChars[i] = c
    THEN LowerChars[CHOOSE i \in 1..26 : UpperChars[i] = c]
    ELSE c

\* str.lower()
lower(s) == [i \in 1..Len(s) |-> LowerChar(s[i])]

\* str.isupper(): at least one cased character and no lowercase one
isupper(s) ==
    /\ \E i \in 1..Len(s) : \E k \in 1..26 : UpperChars[k] = s[i]
    /\ \A i \in 1..Len(s) : \A k \in 1..26 : LowerChars[k] # s[i]

\* str.strip()
strip(s) ==
    IF \A i \in 1..Len(s) : s[i] \in Whitespace THEN <<>>
    ELSE LET a == CHOOSE i \in 1..Len(s) :
                      s[i] \notin Whitespace /\ \A j \in 1..(i-1) : s[j] \in Whitespace
             b == CHOOSE i \in 1..Len(s) :
                      s[i] \notin Whitespace /\ \A j \in (i+1)..Len(s) : s[j] \in Whitespace
         IN  SubSeq(s, a, b)

\* sub in s
Contains(sub, s) ==
    \E i \in 0..(Len(s) - Len(sub)) : SubSeq(s, i + 1, i + Len(sub)) = sub

\* s.count(c) for a one-character c
count(s, c) == Cardinality({i \in 1..Len(s) : s[i] = c})

\* x in list
InList(x, list) == \E i \in 1..Len(list) : list[i] = x

\* re.match(pattern, s): the pattern, a sequence of literal characters and
\* ".*" tokens, matches a prefix of s ("." does not match a newline)
RECURSIVE re_match(_, _)
re_match(pattern, s) ==
    IF pattern = <<>> THEN TRUE
    ELSE IF Head(pattern) = ".*"
    THEN \E k \in 0..Len(s) :
            /\ \A i \in 1..k : s[i] # "\n"
            /\ re_match(Tail(pattern), SubSeq(s, k + 1, Len(s)))
    ELSE /\ s # <<>>
         /\ Head(s) = Head(pattern)
         /\ re_match(Tail(pattern), Tail(s))

\* re.search(r'\d{8,}', s)
HasLongDigitRun(s) ==
    \E i \in 1..(Len(s) - 7) : \A j \in i..(i + 7) : s[j] \in Digits

\* re.sub(r'[^\d]', '', s)
DigitsOnly(s) == SelectSeq(s, LAMBDA c : c \in Digits)

\* s.split('@')[1] when '@' in s, the text between the first and the second '@'
SplitAt1(s) ==
    LET first == CHOOSE i \in 1..Len(s) : s[i] = "@" /\ \A j \in 1..(i-1) : s[j] # "@"
        rest  == SubSeq(s, first + 1, Len(s))
    IN  IF \E i \in 1..Len(rest) : rest[i] = "@"
        THEN SubSeq(rest, 1,
                    (CHOOSE i \in 1..Len(rest) :
                        rest[i] = "@" /\ \A j \in 1..(i-1) : rest[j] # "@") - 1)
        ELSE rest

-----------------------------------------------------------------------------
(* float arithmetic, exact                                                 *)

RECURSIVE GCD(_, _)
GCD(a, b) == IF b = 0 THEN a ELSE GCD(b, a % b)

Abs(x) == IF x < 0 THEN -x ELSE x

\* the rational n/d (d > 0) in lowest terms
R(n, d) == LET g == GCD(Abs(n), d) IN [n |-> n \div g, d |-> d \div g]

Zero == R(0, 1)
One == R(1, 1)

RAdd(a, b) ==
    LET m == (a.d \div GCD(a.d, b.d)) * b.d
    IN  R(a.n * (m \div a.d) + b.n * (m \div b.d), m)
RSub(a, b) == RAdd(a, [n |-> -b.n, d |-> b.d])
RMul(a, b) ==
    LET g1 == GCD(Abs(a.n), b.d)
        g2 == GCD(Abs(b.n), a.d)
    IN  R((a.n \div g1) * (b.n \div g2), (a.d \div g2) * (b.d \div g1))
RDiv(a, b) == RMul(a, [n |-> b.d, d |-> b.n])
RLe(a, b) == a.n * b.d <= b.n * a.d
RGe(a, b) == RLe(b, a)
RLt(a, b) == ~RLe(b, a)
RMax(a, b) == IF RLe(a, b) THEN b ELSE a
RMin(a, b) == IF RLe(a, b) THEN a ELSE b

-----------------------------------------------------------------------------
(* FraudDetectionEngine.__init__: the fixed pattern tables                 *)

fake_email_patterns ==
  << <<"t", "e", "s", "t", ".*", "@", ".*">>,
     <<"f", "a", "k", "e", ".*", "@", ".*">>,
     <<".*", "@", "t", "e", "s", "t", ".", "c", "o", "m">>,
     <<".*", "@", "f", "a", "k", "e", ".", "c", "o", "m">>,
     <<".*", "@", "e", "x", "a", "m", "p", "l", "e", ".", "c", "o", "m">>,
     <<".*", "@", "t", "e", "m", "p", ".*", ".", "c", "o", "m">>,
     <<".*", "@", "t", "h", "r", "o", "w", "a", "w", "a", "y", ".*">>,
     <<".*", "@", "g", "u", "e", "r", "r", "i", "l", "l", "a", ".*">>,
     <<".*", "@", "m", "a", "i", "l", "i", "n", "a", "t", "o", "r", ".*">> >>

fake_phone_patterns ==
  << <<"1", "2", "3", "4", "5", "6", "7", "8", "9", "0">>,
     <<"0", "0", "0", "0", "0", "0", "0", "0", "0", "0">>,
     <<"1", "1", "1", "1", "1", "1", "1", "1", "1", "1">>,
     <<"5", "5", "5", "5", "5", "5", "5", "5", "5", "5">>,
     <<"8", "8", "8", "8", "8", "8", "8", "8", "8", "8">>,
     <<"9", "9", "9", "9", "9", "9", "9", "9", "9", "9">> >>

fake_name_patterns ==
  << <<"t", "e", "s", "t">>,
     <<"f", "a", "k", "e">>,
     <<"j", "o", "h", "n", " ", "d", "o", "e">>,
     <<"j", "a", "n", "e", " ", "d", "o", "e">>,
     <<"a", "d", "m", "i", "n">>,
     <<"u", "s", "e", "r">>,
     <<"s", "a", "m", "p", "l", "e">>,
     <<"d", "e", "m", "o">>,
     <<"e", "x", "a", "m", "p", "l", "e">>,
     <<"u", "n", "k", "n", "o", "w", "n">>,
     <<"a", "s", "d", "f">>,
     <<"q", "w", "e", "r", "t", "y">>,
     <<"t", "e", "m", "p">>,
     <<"t", "e", "m", "p", "o", "r", "a", "r", "y">> >>

suspicious_companies ==
  << <<"t", "e", "s", "t">>,
     <<"f", "a", "k", "e">>,
     <<"c", "o", "m", "p", "a", "n", "y">>,
     <<"c", "o", "r", "p">>,
     <<"i", "n", "c">>,
     <<"l", "l", "c">>,
     <<"b", "u", "s", "i", "n", "e", "s", "s">>,
     <<"e", "n", "t", "e", "r", "p", "r", "i", "s", "e">>,
     <<"s", "o", "l", "u", "t", "i", "o", "n", "s">>,
     <<"s", "e", "r", "v", "i", "c", "e", "s">>,
     <<"c", "o", "n", "s", "u", "l", "t", "i", "n", "g">>,
     <<"g", "r", "o", "u", "p">>,
     <<"o", "r", "g", "a", "n", "i", "z", "a", "t", "i", "o", "n">>,
     <<"n", "/", "a">>,
     <<"n", "o", "n", "e">> >>

\* _check_email_fraud's local list
disposable_domains ==
  << <<"1", "0", "m", "i", "n", "u", "t", "e", "m", "a", "i", "l">>,
     <<"t", "e", "m", "p", "m", "a", "i", "l">>,
     <<"t", "h", "r", "o", "w", "a", "w", "a", "y">>,
     <<"g", "u", "e", "r", "r", "i", "l", "l", "a", "m", "a", "i", "l">>,
     <<"m", "a", "i", "l", "i", "n", "a", "t", "o", "r">>,
     <<"y", "o", "p", "m", "a", "i", "l">>,
     <<"t", "e", "m", "p", "-", "m", "a", "i", "l">> >>

\* _check_phone_fraud's literal list
sequential_phones ==
  << <<"1", "2", "3", "4", "5", "6", "7", "8", "9", "0">>,
     <<"0", "1", "2", "3", "4", "5", "6", "7", "8", "9">>,
     <<"9", "8", "7", "6", "5", "4", "3", "2", "1", "0">> >>

-----------------------------------------------------------------------------
(* FraudDetectionEngine: the five sub-checks.  Each returns                *)
(* {'score': float, 'indicators': [str]}; an indicator is modelled by its  *)
(* kind, without the interpolated value.                                   *)

NoFinding == [score |-> Zero, indicators |-> <<>>]

_check_email_fraud(email) ==
    IF ~Truthy(email) THEN NoFinding
    ELSE
    LET email_lower == lower(email.s)
        domain == IF count(email_lower, "@") > 0 THEN SplitAt1(email_lower) ELSE <<>>
        disposable == \E i \in 1..Len(disposable_domains) :
                          Contains(disposable_domains[i], domain)
        longrun == HasLongDigitRun(email_lower)
        s1 == IF disposable THEN R(9, 10) ELSE Zero
    IN  IF \E i \in 1..Len(fake_email_patterns) :
               re_match(fake_email_patterns[i], email_lower)
        THEN [score |-> One, indicators |-> <<"Fake email pattern">>]
        ELSE [score |-> IF longrun THEN RMax(s1, R(6, 10)) ELSE s1,
              indicators |->
                  (IF disposable THEN <<"Disposable email domain">> ELSE <<>>)
                  \o (IF longrun THEN <<"Email contains long number sequence">>
                      ELSE <<>>)]

\* _check_phone_fraud without the removal of formatting characters
_check_phone_fraud_NoClean(phone) ==
    IF ~Truthy(phone) THEN NoFinding
    ELSE
    LET phone_clean == phone.s
        fewdigits == /\ Cardinality({phone_clean[i] : i \in 1..Len(phone_clean)}) <= 2
                     /\ Len(phone_clean) >= 10
        sequential == InList(phone_clean, sequential_phones)
    IN  IF InList(phone_clean, fake_phone_patterns)
        THEN [score |-> One, indicators |-> <<"Fake phone pattern">>]
        ELSE [score |-> IF sequential THEN R(95, 100)
                        ELSE IF fewdigits THEN R(9, 10) ELSE Zero,
              indicators |->
                  (IF fewdigits THEN <<"Phone has too few unique digits">> ELSE <<>>)
                  \o (IF sequential THEN <<"Sequential phone number pattern">>
                      ELSE <<>>)]

_check_phone_fraud(phone) ==
    IF ~Truthy(phone) THEN NoFinding
    ELSE
    LET phone_clean == DigitsOnly(phone.s)
        fewdigits == /\ Cardinality({phone_clean[i] : i \in 1..Len(phone_clean)}) <= 2
                     /\ Len(phone_clean) >= 10
        sequential == InList(phone_clean, sequential_phones)
    IN  IF InList(phone_clean, fake_phone_patterns)
        THEN [score |-> One, indicators |-> <<"Fake phone pattern">>]
        ELSE [score |-> IF sequential THEN R(95, 100)
                        ELSE IF fewdigits THEN R(9, 10) ELSE Zero,
              indicators |->
                  (IF fewdigits THEN <<"Phone has too few unique digits">> ELSE <<>>)
                  \o (IF sequential THEN <<"Sequential phone number pattern">>
                      ELSE <<>>)]

\* _check_name_fraud adding the findings up instead of taking their maximum
_check_name_fraud_Sum(first_name, last_name) ==
    IF ~Truthy(first_name) \/ ~Truthy(last_name) THEN NoFinding
    ELSE
    LET full_name == lower(first_name.s \o <<" ">> \o last_name.s)
        fake == \E i \in 1..Len(fake_name_patterns) :
                    Contains(fake_name_patterns[i], full_name)
        identical == lower(first_name.s) = lower(last_name.s)
        single == Len(strip(first_name.s)) = 1 \/ Len(strip(last_name.s)) = 1
        s1 == IF fake THEN R(8, 10) ELSE Zero
        s2 == IF identical THEN RAdd(s1, R(7, 10)) ELSE s1
        s3 == IF single THEN RAdd(s2, R(5, 10)) ELSE s2
    IN  [score |-> s3,
         indicators |->
             (IF fake THEN <<"Suspicious name pattern">> ELSE <<>>)
             \o (IF identical THEN <<"Identical first and last name">> ELSE <<>>)
             \o (IF single THEN <<"Single character name">> ELSE <<>>)]

_check_name_fraud(first_name, last_name) ==
    IF ~Truthy(first_name) \/ ~Truthy(last_name) THEN NoFinding
    ELSE
    LET full_name == lower(first_name.s \o <<" ">> \o last_name.s)
        fake == \E i \in 1..Len(fake_name_patterns) :
                    Contains(fake_name_patterns[i], full_name)
        identical == lower(first_name.s) = lower(last_name.s)
        single == Len(strip(first_name.s)) = 1 \/ Len(strip(last_name.s)) = 1
        s1 == IF fake THEN R(8, 10) ELSE Zero
        s2 == IF identical THEN RMax(s1, R(7, 10)) ELSE s1
        s3 == IF single THEN RMax(s2, R(5, 10)) ELSE s2
    IN  [score |-> s3,
         indicators |->
             (IF fake THEN <<"Suspicious name pattern">> ELSE <<>>)
             \o (IF identical THEN <<"Identical first and last name">> ELSE <<>>)
             \o (IF single THEN <<"Single character name">> ELSE <<>>)]

_check_company_fraud(company) ==
    IF ~Truthy(company) THEN NoFinding
    ELSE
    LET company_lower == strip(lower(company.s))
        generic == InList(company_lower, suspicious_companies)
        short == Len(company_lower) <= 2
        s1 == IF generic THEN R(6, 10) ELSE Zero
    IN  [score |-> IF short THEN RMax(s1, R(4, 10)) ELSE s1,
         indicators |->
             (IF generic THEN <<"Generic company name">> ELSE <<>>)
             \o (IF short THEN <<"Company name too short">> ELSE <<>>)]

\* lead_data.get(key, '').lower() raises AttributeError when the key holds None
_check_pattern_consistency(lead_data) ==
    LET e == GetOrEmpty(lead_data, "Email")
        f == GetOrEmpty(lead_data, "FirstName")
        l == GetOrEmpty(lead_data, "LastName")
    IN  IF e.kind # "str" \/ f.kind # "str" \/ l.kind # "str"
        THEN [exc |-> "AttributeError", score |-> Zero, indicators |-> <<>>]
        ELSE
        LET email == lower(e.s)
            first_name == lower(f.s)
            last_name == lower(l.s)
            absent == /\ email # <<>> /\ first_name # <<>> /\ last_name # <<>>
                      /\ ~Contains(first_name, email)
                      /\ ~Contains(last_name, email)
        IN  [exc |-> "",
             score |-> IF absent THEN R(3, 10) ELSE Zero,
             indicators |-> IF absent THEN <<"Name not reflected in email address">>
                            ELSE <<>>]

\* _determine_risk_level with > for >=
_determine_risk_level_Strict(fraud_score) ==
    IF RLt(R(8, 10), fraud_score) THEN "CRITICAL"
    ELSE IF RLt(R(6, 10), fraud_score) THEN "HIGH"
    ELSE IF RLt(R(4, 10), fraud_score) THEN "MEDIUM"
    ELSE IF RLt(R(2, 10), fraud_score) THEN "LOW"
    ELSE "MINIMAL"

_determine_risk_level(fraud_score) ==
    IF RGe(fraud_score, R(8, 10)) THEN "CRITICAL"
    ELSE IF RGe(fraud_score, R(6, 10)) THEN "HIGH"
    ELSE IF RGe(fraud_score, R(4, 10)) THEN "MEDIUM"
    ELSE IF RGe(fraud_score, R(2, 10)) THEN "LOW"
    ELSE "MINIMAL"

\* FraudSum with the email weight 0.5
FraudSum_EmailHalf(email_fraud, phone_fraud, name_fraud, company_fraud, consistency_fraud) ==
    RAdd(RAdd(RAdd(RAdd(RAdd(Zero,
        RMul(email_fraud.score, R(5, 10))),
        RMul(phone_fraud.score, R(25, 100))),
        RMul(name_fraud.score, R(2, 10))),
        RMul(company_fraud.score, R(15, 100))),
        RMul(consistency_fraud.score, R(1, 10)))

\* FraudSum with the phone weight 0.2
FraudSum_PhoneWeight(email_fraud, phone_fraud, name_fraud, company_fraud, consistency_fraud) ==
    RAdd(RAdd(RAdd(RAdd(RAdd(Zero,
        RMul(email_fraud.score, R(3, 10))),
        RMul(phone_fraud.score, R(2, 10))),
        RMul(name_fraud.score, R(2, 10))),
        RMul(company_fraud.score, R(15, 100))),
        RMul(consistency_fraud.score, R(1, 10)))

\* the sum accumulated in calculate_fraud_score, before the cap
FraudSum(email_fraud, phone_fraud, name_fraud, company_fraud, consistency_fraud) ==
    RAdd(RAdd(RAdd(RAdd(RAdd(Zero,
        RMul(email_fraud.score, R(3, 10))),
        RMul(phone_fraud.score, R(25, 100))),
        RMul(name_fraud.score, R(2, 10))),
        RMul(company_fraud.score, R(15, 100))),
        RMul(consistency_fraud.score, R(1, 10)))

\* a call that raised: no value is returned
Raised(exc) ==
    [exc |-> exc, fraud_score |-> Zero, fraud_indicators |-> <<>>,
     is_likely_fake |-> FALSE, risk_level |-> ""]

calculate_fraud_score(lead_data) ==
    LET email_fraud == _check_email_fraud(Get(lead_data, "Email"))
        phone_fraud == _check_phone_fraud(Get(lead_data, "Phone"))
        name_fraud == _check_name_fraud(Get(lead_data, "FirstName"),
                                        Get(lead_data, "LastName"))
        company_fraud == _check_company_fraud(Get(lead_data, "Company"))
        consistency_fraud == _check_pattern_consistency(lead_data)
        fraud_score == FraudSum(email_fraud, phone_fraud, name_fraud,
                                company_fraud, consistency_fraud)
    IN  IF consistency_fraud.exc # "" THEN Raised(consistency_fraud.exc)
        ELSE [exc |-> "",
              fraud_score |-> RMin(fraud_score, One),
              fraud_indicators |->
                  email_fraud.indicators \o phone_fraud.indicators
                  \o name_fraud.indicators \o company_fraud.indicators
                  \o consistency_fraud.indicators,
              is_likely_fake |-> RGe(fraud_score, R(7, 10)),
              risk_level |-> _determine_risk_level(fraud_score)]

-----------------------------------------------------------------------------
(* config/settings.py and the pattern lists of LeadValidationRules         *)

REQUIRED_FIELDS == <<"FirstName", "LastName", "Email", "Phone", "Company", "Status">>
IMPORTANT_FIELDS == <<"Title", "Industry", "LeadSource", "City", "State", "Country">>

\* _validate_name's suspicious_patterns
name_suspicious_patterns ==
  << <<"t", "e", "s", "t">>,
     <<"u", "n", "k", "n", "o", "w", "n">>,
     <<"n", "/", "a">>,
     <<"n", "u", "l", "l">>,
     <<"a", "d", "m", "i", "n">> >>

\* _validate_company's suspicious_patterns
company_suspicious_patterns ==
  << <<"t", "e", "s", "t">>,
     <<"u", "n", "k", "n", "o", "w", "n">>,
     <<"n", "/", "a">>,
     <<"n", "u", "l", "l">>,
     <<"n", "o", "n", "e">>,
     <<"c", "o", "m", "p", "a", "n", "y">> >>

\* _validate_data_quality's placeholder_patterns
placeholder_patterns ==
  << <<"t", "e", "s", "t">>,
     <<"u", "n", "k", "n", "o", "w", "n">>,
     <<"n", "/", "a">>,
     <<"n", "u", "l", "l">>,
     <<"n", "o", "n", "e">>,
     <<"t", "b", "d">>,
     <<"p", "e", "n", "d", "i", "n", "g">> >>

\* _validate_email's common_domains
common_domains ==
  << <<"g", "m", "a", "i", "l", ".", "c", "o", "m">>,
     <<"y", "a", "h", "o", "o", ".", "c", "o", "m">>,
     <<"h", "o", "t", "m", "a", "i", "l", ".", "c", "o", "m">>,
     <<"o", "u", "t", "l", "o", "o", "k", ".", "c", "o", "m">> >>

-----------------------------------------------------------------------------
(* fuzz.ratio: 100 * 2 * M / (len(s1) + len(s2)), rounded, where M is the  *)
(* number of matched characters (the longest common subsequence); 0 when   *)
(* either string is empty.                                                 *)

Max2(a, b) == IF a >= b THEN a ELSE b

\* one row of the longest-common-subsequence table: row[j + 1] is the value
\* for the prefix of s2 of length j
RECURSIVE LcsRow(_, _, _, _)
LcsRow(prev, ch, s2, row) ==
    LET j == Len(row)
    IN  IF j > Len(s2) THEN row
        ELSE CHOOSE r \in {LcsRow(prev, ch, s2, next) :
                             next \in {Append(row, IF ch = s2[j] THEN prev[j] + 1
                                                   ELSE Max2(prev[j + 1], row[j]))}} : TRUE

\* the rows of the table, each computed before the next one is begun
RECURSIVE LcsRows(_, _, _, _)
LcsRows(s1, s2, i, prev) ==
    IF i > Len(s1) THEN prev[Len(s2) + 1]
    ELSE CHOOSE m \in {LcsRows(s1, s2, i + 1, row) :
                         row \in {LcsRow(prev, s1[i], s2, <<0>>)}} : TRUE

LCS(s1, s2) == LcsRows(s1, s2, 1, [j \in 1..(Len(s2) + 1) |-> 0])

\* int(round(100 * 2 * m / t)), round-half-to-even
RoundedPercent(m, t) ==
    LET q == (200 * m) \div t
        r == (200 * m) % t
    IN  IF 2 * r < t THEN q
        ELSE IF 2 * r > t THEN q + 1
        ELSE IF q % 2 = 0 THEN q ELSE q + 1

ratio(s1, s2) ==
    IF s1 = <<>> \/ s2 = <<>> THEN 0
    ELSE RoundedPercent(LCS(s1, s2), Len(s1) + Len(s2))

-----------------------------------------------------------------------------
(* LeadValidationRules: the per-dimension checks.  An issue is modelled by *)
(* its kind (and the field it names), without the interpolated value.      *)

\* the first common domain whose similarity is in [60, 90), else None
_check_domain_typos(domain, domains) ==
    LET similarity == [i \in 1..Len(domains) |-> ratio(domain, domains[i])]
        hits == {i \in 1..Len(domains) : 60 <= similarity[i] /\ similarity[i] < 90}
    IN  IF hits = {} THEN PyNone
        ELSE Str(domains[CHOOSE i \in hits : \A j \in hits : i <= j])

\* accepted: whether email_validator.validate_email returns (TRUE) or raises
\* EmailNotValidError (FALSE)
_validate_email(email, accepted) ==
    IF ~Truthy(email)
    THEN [field |-> "email", is_valid |-> FALSE, score |-> Zero,
          issues |-> <<"Email is required">>]
    ELSE IF ~accepted
    THEN [field |-> "email", is_valid |-> FALSE, score |-> Zero,
          issues |-> <<"Invalid email format">>]
    ELSE
    LET multiple == count(email.s, "@") # 1
        domain == lower(SplitAt1(email.s))
        typo == _check_domain_typos(domain, common_domains) # PyNone
        s1 == IF multiple THEN RMul(One, R(5, 10)) ELSE One
    IN  [field |-> "email", is_valid |-> TRUE,
         score |-> IF typo THEN RMul(s1, R(8, 10)) ELSE s1,
         issues |-> (IF multiple THEN <<"Multiple @ symbols">> ELSE <<>>)
                    \o (IF typo THEN <<"Possible domain typo">> ELSE <<>>)]

\* outcome: what phonenumbers does with the number: "valid" (parse returns and
\* is_valid_number is true), "invalid" (parse returns, is_valid_number is
\* false) or "parse_error" (parse raises NumberParseException)
_validate_phone(phone, outcome) ==
    IF ~Truthy(phone)
    THEN [field |-> "phone", is_valid |-> FALSE, score |-> Zero,
          issues |-> <<"Phone number is required">>]
    ELSE IF outcome = "valid"
    THEN [field |-> "phone", is_valid |-> TRUE, score |-> One, issues |-> <<>>]
    ELSE IF outcome = "invalid"
    THEN [field |-> "phone", is_valid |-> FALSE, score |-> Zero,
          issues |-> <<"Invalid phone number">>]
    ELSE [field |-> "phone", is_valid |-> FALSE, score |-> Zero,
          issues |-> <<"Phone parsing error">>]

\* NamePart without the penalty for a one-character name
NamePart_NoShort(name, required_issue, short_issue) ==
    IF ~Truthy(name) \/ Len(strip(name.s)) < 1
    THEN [components |-> <<>>, issues |-> <<required_issue>>]
    ELSE [components |-> <<R(5, 10)>>, issues |-> <<>>]

\* one name part of _validate_name: its score component, if any, and its issue
NamePart(name, required_issue, short_issue) ==
    IF ~Truthy(name) \/ Len(strip(name.s)) < 1
    THEN [components |-> <<>>, issues |-> <<required_issue>>]
    ELSE IF Len(strip(name.s)) >= 2
    THEN [components |-> <<R(5, 10)>>, issues |-> <<>>]
    ELSE [components |-> <<R(25, 100)>>, issues |-> <<short_issue>>]

RECURSIVE RSum(_)
RSum(seq) == IF seq = <<>> THEN Zero ELSE RAdd(Head(seq), RSum(Tail(seq)))

_validate_name(first_name, last_name) ==
    LET fp == NamePart(first_name, "First name is required", "First name too short")
        lp == NamePart(last_name, "Last name is required", "Last name too short")
        components == fp.components \o lp.components
        suspicious ==
            /\ Truthy(first_name) /\ Truthy(last_name)
            /\ \E i \in 1..Len(name_suspicious_patterns) :
                   Contains(name_suspicious_patterns[i],
                            lower(first_name.s \o <<" ">> \o last_name.s))
        score_components ==
            IF suspicious
            THEN [i \in 1..Len(components) |-> RMul(components[i], R(5, 10))]
            ELSE components
        score == RSum(score_components)
    IN  [field |-> "name", is_valid |-> RGe(score, R(8, 10)), score |-> score,
         issues |-> fp.issues \o lp.issues
                    \o (IF suspicious THEN <<"Suspicious name pattern detected">>
                        ELSE <<>>)]

_validate_company(company) ==
    IF ~Truthy(company)
    THEN [field |-> "company", is_valid |-> FALSE, score |-> Zero,
          issues |-> <<"Company name is required">>]
    ELSE
    LET company_clean == strip(company.s)
        short == Len(company_clean) < 2
        suspicious == InList(lower(company_clean), company_suspicious_patterns)
        s1 == IF short THEN R(2, 10) ELSE R(8, 10)
    IN  [field |-> "company",
         is_valid |-> ~short /\ ~suspicious,
         score |-> IF suspicious THEN RMul(s1, R(3, 10)) ELSE s1,
         issues |-> (IF short THEN <<"Company name too short">> ELSE <<>>)
                    \o (IF suspicious THEN <<"Suspicious company name">> ELSE <<>>)]

\* Filled without the strip: a field of blanks counts as filled
Filled_NoStrip(lead_data, field) ==
    Truthy(Get(lead_data, field))

\* lead_data.get(field) and str(lead_data.get(field)).strip()
Filled(lead_data, field) ==
    Truthy(Get(lead_data, field)) /\ strip(Get(lead_data, field).s) # <<>>

FilledCount(lead_data, fields) ==
    Cardinality({i \in 1..Len(fields) : Filled(lead_data, fields[i])})

_validate_completeness(lead_data) ==
    LET required_filled == FilledCount(lead_data, REQUIRED_FIELDS)
        important_filled == FilledCount(lead_data, IMPORTANT_FIELDS)
        required_score == R(required_filled, Len(REQUIRED_FIELDS))
        important_score == IF Len(IMPORTANT_FIELDS) > 0
                           THEN R(important_filled, Len(IMPORTANT_FIELDS))
                           ELSE Zero
        all_fields == {REQUIRED_FIELDS[i] : i \in 1..Len(REQUIRED_FIELDS)}
                      \cup {IMPORTANT_FIELDS[i] : i \in 1..Len(IMPORTANT_FIELDS)}
        missing == SelectSeq(REQUIRED_FIELDS, LAMBDA f : ~Filled(lead_data, f))
    IN  [field |-> "completeness",
         score |-> RAdd(RMul(required_score, R(7, 10)),
                        RMul(important_score, R(3, 10))),
         required_fields_filled |-> required_filled,
         important_fields_filled |-> important_filled,
         total_fields_filled |->
             Cardinality({f \in all_fields : Filled(lead_data, f)}),
         issues |-> [i \in 1..Len(missing) |->
                        <<"Missing required field", missing[i]>>]]

\* the items of the dict whose value is a non-empty str
StringItems(lead_data) ==
    {k \in DOMAIN lead_data : Truthy(lead_data[k])}

_validate_data_quality(lead_data) ==
    LET items == StringItems(lead_data)
        total_checks == Cardinality(items)
        placeholders ==
            {k \in items : InList(strip(lower(lead_data[k].s)), placeholder_patterns)}
        allcaps == {k \in items : isupper(lead_data[k].s) /\ Len(lead_data[k].s) > 10}
        spaced == {k \in items : Contains(<<" ", " ">>, lead_data[k].s)}
        quality_issues ==
            Cardinality(placeholders) + Cardinality(allcaps) + Cardinality(spaced)
    IN  [field |-> "data_quality",
         score |-> IF total_checks > 0
                   THEN RMax(Zero, RSub(One, R(quality_issues, total_checks)))
                   ELSE One,
         issues |-> {<<"Placeholder value", k>> : k \in placeholders}
                    \cup {<<"All caps formatting", k>> : k \in allcaps}
                    \cup {<<"Multiple spaces", k>> : k \in spaced}]

-----------------------------------------------------------------------------
(* Score fusion                                                            *)

\* _calculate_data_quality_score's weights
weights ==
    [email |-> R(30, 100), phone |-> R(30, 100), name |-> R(15, 100),
     company |-> R(10, 100), completeness |-> R(15, 100)]

\* the order in which the weights dict is iterated
weight_fields == <<"email", "phone", "name", "company", "completeness">>

\* validation_details[field].get('score', 0.0)
ScoreOrZero(detail) ==
    IF "score" \in DOMAIN detail THEN detail.score ELSE Zero

\* _calculate_data_quality_score without the division by the weights present
_calculate_data_quality_score_Unnormalised(validation_details) ==
    LET dims == SelectSeq(weight_fields,
                          LAMBDA f : f \in DOMAIN validation_details)
    IN  RSum([i \in 1..Len(dims) |->
                 RMul(ScoreOrZero(validation_details[dims[i]]), weights[dims[i]])])

_calculate_data_quality_score(validation_details) ==
    LET dims == SelectSeq(weight_fields,
                          LAMBDA f : f \in DOMAIN validation_details)
        total_score ==
            RSum([i \in 1..Len(dims) |->
                     RMul(ScoreOrZero(validation_details[dims[i]]),
                          weights[dims[i]])])
        total_weight == RSum([i \in 1..Len(dims) |-> weights[dims[i]]])
    IN  IF RLt(Zero, total_weight) THEN RDiv(total_score, total_weight) ELSE Zero

\* _calculate_combined_score without the inversion of the fraud score
_calculate_combined_score_NoInvert(data_quality_score, fraud_score) ==
    RAdd(RMul(data_quality_score, R(7, 10)), RMul(fraud_score, R(3, 10)))

\* _calculate_combined_score with the two weights exchanged
_calculate_combined_score_Swapped(data_quality_score, fraud_score) ==
    LET fraud_quality_score == RSub(One, fraud_score)
    IN  RAdd(RMul(data_quality_score, R(3, 10)), RMul(fraud_quality_score, R(7, 10)))

_calculate_combined_score(data_quality_score, fraud_score) ==
    LET fraud_quality_score == RSub(One, fraud_score)
    IN  RAdd(RMul(data_quality_score, R(7, 10)), RMul(fraud_quality_score, R(3, 10)))

\* _determine_validation_status testing the Fair threshold before the Good one
_determine_validation_status_Reordered(overall_score) ==
    IF RGe(overall_score, R(9, 10)) THEN "Excellent"
    ELSE IF RGe(overall_score, R(6, 10)) THEN "Fair"
    ELSE IF RGe(overall_score, R(8, 10)) THEN "Good"
    ELSE IF RGe(overall_score, R(4, 10)) THEN "Poor"
    ELSE "Invalid"

_determine_validation_status(overall_score) ==
    IF RGe(overall_score, R(9, 10)) THEN "Excellent"
    ELSE IF RGe(overall_score, R(8, 10)) THEN "Good"
    ELSE IF RGe(overall_score, R(6, 10)) THEN "Fair"
    ELSE IF RGe(overall_score, R(4, 10)) THEN "Poor"
    ELSE "Invalid"

\* a validate_lead call that raised: no value is returned
ValidateRaised(exc) ==
    [exc |-> exc, overall_score |-> Zero, data_quality_score |-> Zero,
     fraud_score |-> Zero, validation_details |-> <<>>, validation_status |-> ""]

\* validate_lead, given what the two external validators do with the lead's
\* email and phone
validate_lead(lead_data, email_accepted, phone_outcome) ==
    LET details ==
            [email |-> _validate_email(Get(lead_data, "Email"), email_accepted),
             phone |-> _validate_phone(Get(lead_data, "Phone"), phone_outcome),
             name |-> _validate_name(Get(lead_data, "FirstName"),
                                     Get(lead_data, "LastName")),
             company |-> _validate_company(Get(lead_data, "Company")),
             completeness |-> _validate_completeness(lead_data),
             data_quality |-> _validate_data_quality(lead_data)]
        data_quality_score == _calculate_data_quality_score(details)
        fraud_analysis == calculate_fraud_score(lead_data)
        overall_score ==
            _calculate_combined_score(data_quality_score, fraud_analysis.fraud_score)
    IN  IF fraud_analysis.exc # "" THEN ValidateRaised(fraud_analysis.exc)
        ELSE [exc |-> "",
              overall_score |-> overall_score,
              data_quality_score |-> data_quality_score,
              fraud_score |-> fraud_analysis.fraud_score,
              validation_details |->
                  [k \in DOMAIN details \cup {"fraud"} |->
                      IF k = "fraud" THEN fraud_analysis ELSE details[k]],
              validation_status |-> _determine_validation_status(overall_score)]

-----------------------------------------------------------------------------
(* Python values of the description parser: None, bool, int, str, list and *)
(* dict, as the parser and json.loads produce them. s holds the characters *)
(* of a str or the decimal digits of an int, items the elements of a list  *)
(* or the key/value pairs of a dict, in order.                             *)

JNone == [kind |-> "none", s |-> <<>>, items |-> <<>>]
JBool(b) == [kind |-> "bool", s |-> IF b THEN <<"1">> ELSE <<"0">>, items |-> <<>>]
JStr(chars) == [kind |-> "str", s |-> chars, items |-> <<>>]
JList(values) == [kind |-> "list", s |-> <<>>, items |-> values]
JDict(pairs) == [kind |-> "dict", s |-> <<>>, items |-> pairs]
Pair(k, v) == [key |-> k, val |-> v]

\* int(digits): the number without its leading zeros
RECURSIVE DropZeros(_)
DropZeros(digits) ==
    IF Len(digits) > 1 /\ Head(digits) = "0" THEN DropZeros(Tail(digits)) ELSE digits

JInt(digits) == [kind |-> "int", s |-> DropZeros(digits), items |-> <<>>]

DigitValue(c) ==
    CASE c = "0" -> 0 [] c = "1" -> 1 [] c = "2" -> 2 [] c = "3" -> 3
      [] c = "4" -> 4 [] c = "5" -> 5 [] c = "6" -> 6 [] c = "7" -> 7
      [] c = "8" -> 8 [] c = "9" -> 9

\* the number an int holds
RECURSIVE IntOf(_)
IntOf(digits) ==
    IF digits = <<>> THEN 0
    ELSE 10 * IntOf(SubSeq(digits, 1, Len(digits) - 1)) + DigitValue(digits[Len(digits)])

\* key in d, d[key] and d.get(key) of a dict
HasKey(d, key) == \E i \in 1..Len(d.items) : d.items[i].key = key
Lookup(d, key) ==
    d.items[CHOOSE i \in 1..Len(d.items) :
                /\ d.items[i].key = key
                /\ \A j \in (i + 1)..Len(d.items) : d.items[j].key # key].val
GetOrNone(d, key) == IF HasKey(d, key) THEN Lookup(d, key) ELSE JNone

\* dict.update on dicts keyed by field name
Update(a, b) ==
    [k \in DOMAIN a \cup DOMAIN b |-> IF k \in DOMAIN b THEN b[k] ELSE a[k]]

\* the empty dict {}
EmptyDict == [k \in {} |-> JNone]

-----------------------------------------------------------------------------
(* The regular expressions of the description parser                       *)

WordChars ==
    {UpperChars[i] : i \in 1..26} \cup {LowerChars[i] : i \in 1..26}
    \cup Digits \cup {"_"}

\* the least element of a non-empty set of numbers
Least(S) == CHOOSE i \in S : \A j \in S : i <= j

\* the positions at which sub occurs in s, from position from on
Occurrences(sub, s, from) ==
    {i \in from..(Len(s) - Len(sub) + 1) : SubSeq(s, i, i + Len(sub) - 1) = sub}

\* str.find(sub) counted from 1: 0 when sub does not occur
Find(sub, s, from) ==
    LET hits == Occurrences(sub, s, from)
    IN  IF hits = {} THEN 0 ELSE Least(hits)

\* str.rfind(sub) counted from 1: 0 when sub does not occur
RFind(sub, s) ==
    LET hits == Occurrences(sub, s, 1)
    IN  IF hits = {} THEN 0 ELSE CHOOSE i \in hits : \A j \in hits : j <= i

\* the last position of the longest run of characters of chars starting at
\* p (p - 1 when s[p] is not one): what a greedy \s*, \d+ or \w+ consumes
RunEnd(s, p, chars) ==
    LET stops == {i \in p..Len(s) : s[i] \notin chars}
    IN  IF stops = {} THEN Len(s) ELSE Least(stops) - 1

\* the last position of the line p is on: what a greedy .+ consumes
LineEnd(s, p) ==
    LET stops == {i \in p..Len(s) : s[i] = "\n"}
    IN  IF stops = {} THEN Len(s) ELSE Least(stops) - 1

\* s[p : p + Len(word)] == word
StartsWithAt(s, p, word) ==
    p + Len(word) - 1 <= Len(s) /\ SubSeq(s, p, p + Len(word) - 1) = word

NoMatch == [matched |-> FALSE, group |-> <<>>]

\* what group 1 captures when  label\s*(group)  is matched with the label at
\* position i of content: <<>> when it does not match there. The groups:
\* "digits" (\d+), "percent" (\d+)%, "word" (\w+), "bool" (true|false),
\* "rest" (.+). content has been stripped, so a (.+) is never left with
\* only the blanks that \s* consumed.
GroupAt(label, group, content, i) ==
    LET p == RunEnd(content, i + Len(label), Whitespace) + 1
    IN  CASE group = "digits" -> SubSeq(content, p, RunEnd(content, p, Digits))
          [] group = "percent" ->
                LET e == RunEnd(content, p, Digits)
                IN  IF e >= p /\ e < Len(content) /\ content[e + 1] = "%"
                    THEN SubSeq(content, p, e) ELSE <<>>
          [] group = "word" -> SubSeq(content, p, RunEnd(content, p, WordChars))
          [] group = "bool" ->
                IF StartsWithAt(lower(content), p, <<"t", "r", "u", "e">>)
                THEN SubSeq(content, p, p + 3)
                ELSE IF StartsWithAt(lower(content), p, <<"f", "a", "l", "s", "e">>)
                THEN SubSeq(content, p, p + 4)
                ELSE <<>>
          [] group = "rest" -> SubSeq(content, p, LineEnd(content, p))

\* re.search(label + r'\s*(group)', content, re.IGNORECASE): the leftmost
\* match
re_search(label, group, content) ==
    LET starts == Occurrences(lower(label), lower(content), 1)
        hits == {i \in starts : GroupAt(label, group, content, i) # <<>>}
    IN  IF hits = {} THEN NoMatch
        ELSE [matched |-> TRUE, group |-> GroupAt(label, group, content, Least(hits))]

SectionMark == <<"=", "=", "=", " ">>

\* a section search that falls back on the whole text when the header is
\* missing
SectionContent_WholeText(header, description) ==
    LET h == Find(header, description, 1)
        b == h + Len(header)
        e == Find(<<"=", "=", "=", " ">>, description, b)
    IN  IF h = 0 THEN [matched |-> TRUE, group |-> strip(description)]
        ELSE [matched |-> TRUE,
              group |-> strip(SubSeq(description, b,
                                     IF e = 0 THEN Len(description) ELSE e - 1))]

\* re.search(header + r'(.*?)(?==== |$)', description, re.DOTALL), then
\* match.group(1).strip(): the text from the first occurrence of the header
\* to the next "=== " or the end
SectionContent(header, description) ==
    LET h == Find(header, description, 1)
        b == h + Len(header)
        e == Find(SectionMark, description, b)
    IN  IF h = 0 THEN NoMatch
        ELSE [matched |-> TRUE,
              group |-> strip(SubSeq(description, b,
                                     IF e = 0 THEN Len(description) ELSE e - 1))]

-----------------------------------------------------------------------------
(* ValidationDataParser: the four text sections                            *)

LEAD_HEADER ==
    <<"=", "=", "=", " ", "L", "E", "A", "D", " ", "V", "A", "L", "I", "D", "A", "T", "I", "O", "N", " ", "R", "E", "S", "U", "L", "T", "S", " ", "=", "=", "=">>
PHONE_HEADER ==
    <<"=", "=", "=", " ", "P", "H", "O", "N", "E", " ", "V", "A", "L", "I", "D", "A", "T", "I", "O", "N", " ", "=", "=", "=">>
EMAIL_HEADER ==
    <<"=", "=", "=", " ", "E", "M", "A", "I", "L", " ", "V", "A", "L", "I", "D", "A", "T", "I", "O", "N", " ", "=", "=", "=">>
SUMMARY_HEADER ==
    <<"=", "=", "=", " ", "E", "M", "A", "I", "L", " ", "S", "U", "M", "M", "A", "R", "Y", " ", "=", "=", "=">>
RAW_HEADER ==
    <<"=", "=", "=", " ", "R", "A", "W", " ", "A", "P", "I", " ", "R", "E", "S", "P", "O", "N", "S", "E", " ", "=", "=", "=">>

\* _extract_lead_validation_section: fields
lead_fields ==
    <<
      [field |-> "lead_score", group |-> "digits",
       label |-> <<"L", "e", "a", "d", " ", "S", "c", "o", "r", "e", ":">>],
      [field |-> "quality_score", group |-> "digits",
       label |-> <<"Q", "u", "a", "l", "i", "t", "y", " ", "S", "c", "o", "r", "e", ":">>],
      [field |-> "data_quality", group |-> "percent",
       label |-> <<"D", "a", "t", "a", " ", "Q", "u", "a", "l", "i", "t", "y", ":">>],
      [field |-> "fraud_score", group |-> "digits",
       label |-> <<"F", "r", "a", "u", "d", " ", "S", "c", "o", "r", "e", ":">>],
      [field |-> "recommendation", group |-> "word",
       label |-> <<"R", "e", "c", "o", "m", "m", "e", "n", "d", "a", "t", "i", "o", "n", ":">>],
      [field |-> "quality_level", group |-> "word",
       label |-> <<"Q", "u", "a", "l", "i", "t", "y", " ", "L", "e", "v", "e", "l", ":">>],
      [field |-> "fraud_risk", group |-> "word",
       label |-> <<"F", "r", "a", "u", "d", " ", "R", "i", "s", "k", ":">>],
      [field |-> "market_segment", group |-> "rest",
       label |-> <<"M", "a", "r", "k", "e", "t", " ", "S", "e", "g", "m", "e", "n", "t", ":">>]
    >>

\* _extract_phone_validation_section: fields
phone_fields ==
    <<
      [field |-> "phone_valid", group |-> "bool",
       label |-> <<"P", "h", "o", "n", "e", " ", "V", "a", "l", "i", "d", ":">>],
      [field |-> "phone_carrier", group |-> "rest",
       label |-> <<"C", "a", "r", "r", "i", "e", "r", ":">>],
      [field |-> "phone_type", group |-> "rest",
       label |-> <<"T", "y", "p", "e", ":">>],
      [field |-> "phone_national_format", group |-> "rest",
       label |-> <<"N", "a", "t", "i", "o", "n", "a", "l", " ", "F", "o", "r", "m", "a", "t", ":">>]
    >>

\* _extract_email_validation_section: fields
email_fields ==
    <<
      [field |-> "email_valid", group |-> "bool",
       label |-> <<"E", "m", "a", "i", "l", " ", "V", "a", "l", "i", "d", ":">>],
      [field |-> "email_sendable", group |-> "bool",
       label |-> <<"E", "m", "a", "i", "l", " ", "S", "e", "n", "d", "a", "b", "l", "e", ":">>],
      [field |-> "bounce_likely", group |-> "bool",
       label |-> <<"B", "o", "u", "n", "c", "e", " ", "L", "i", "k", "e", "l", "y", ":">>],
      [field |-> "gibberish_score", group |-> "rest",
       label |-> <<"G", "i", "b", "b", "e", "r", "i", "s", "h", " ", "S", "c", "o", "r", "e", ":">>]
    >>

\* _extract_email_summary_section: fields
summary_fields ==
    <<
      [field |-> "total_emails", group |-> "digits",
       label |-> <<"T", "o", "t", "a", "l", " ", "E", "m", "a", "i", "l", "s", ":">>],
      [field |-> "valid_emails", group |-> "digits",
       label |-> <<"V", "a", "l", "i", "d", " ", "E", "m", "a", "i", "l", "s", ":">>],
      [field |-> "sendable_emails", group |-> "digits",
       label |-> <<"S", "e", "n", "d", "a", "b", "l", "e", " ", "E", "m", "a", "i", "l", "s", ":">>],
      [field |-> "email_quality_score", group |-> "digits",
       label |-> <<"E", "m", "a", "i", "l", " ", "Q", "u", "a", "l", "i", "t", "y", " ", "S", "c", "o", "r", "e", ":">>]
    >>

\* the loop over fields.items() of a section extractor: each field whose
\* pattern matches in the section's content gets the match's group 1
Matches(header, fields, description) ==
    LET section == SectionContent(header, description)
        found == {i \in 1..Len(fields) :
                     /\ section.matched
                     /\ re_search(fields[i].label, fields[i].group,
                                  section.group).matched}
    IN  [f \in {fields[i].field : i \in found} |->
            LET i == CHOOSE i \in found : fields[i].field = f
            IN  re_search(fields[i].label, fields[i].group, section.group).group]

numeric_fields == {"lead_score", "quality_score", "data_quality", "fraud_score"}

_extract_lead_validation_section(description) ==
    LET groups == Matches(LEAD_HEADER, lead_fields, description)
    IN  [f \in DOMAIN groups |->
            LET value == strip(groups[f])
            IN  IF f \in numeric_fields THEN JInt(value) ELSE JStr(value)]

\* the three ways a matched value of the phone and email sections is stored
BoolNullOrStr(is_bool, value) ==
    IF is_bool THEN JBool(lower(value) = <<"t", "r", "u", "e">>)
    ELSE IF lower(value) = <<"n", "u", "l", "l">> THEN JNone
    ELSE JStr(value)

_extract_phone_validation_section(description) ==
    LET groups == Matches(PHONE_HEADER, phone_fields, description)
    IN  [f \in DOMAIN groups |->
            BoolNullOrStr(f = "phone_valid", strip(groups[f]))]

_extract_email_validation_section(description) ==
    LET groups == Matches(EMAIL_HEADER, email_fields, description)
    IN  [f \in DOMAIN groups |->
            BoolNullOrStr(f \in {"email_valid", "email_sendable", "bounce_likely"},
                          strip(groups[f]))]

_extract_email_summary_section(description) ==
    LET groups == Matches(SUMMARY_HEADER, summary_fields, description)
    IN  [f \in DOMAIN groups |-> JInt(groups[f])]

-----------------------------------------------------------------------------
(* json.loads, on JSON texts without escapes, signs, fractions or          *)
(* exponents: objects, arrays, strings, non-negative integers, true,       *)
(* false and null. A failure carries the message of the JSONDecodeError,   *)
(* without its position.                                                   *)

JsonFail(msg) == [ok |-> FALSE, val |-> JNone, pos |-> 0, msg |-> msg]
JsonOk(v, pos) == [ok |-> TRUE, val |-> v, pos |-> pos, msg |-> ""]

\* the position of the first character at or after p that is not whitespace
SkipWs(s, p) == RunEnd(s, p, Whitespace) + 1

\* the character at p, "" past the end
CharAt(s, p) == IF p <= Len(s) THEN s[p] ELSE ""

Quote == "\""

\* a string starting with the quote at p
ParseString(s, p) ==
    LET close == Find(<<Quote>>, s, p + 1)
    IN  IF close = 0 THEN JsonFail("Unterminated string starting at")
        ELSE JsonOk(JStr(SubSeq(s, p + 1, close - 1)), close + 1)

RECURSIVE ParseValue(_, _), ParseMembers(_, _, _), ParseElements(_, _, _)

\* the members of an object, the first one starting at p
ParseMembers(s, p, acc) ==
    IF CharAt(s, p) # Quote
    THEN JsonFail("Expecting property name enclosed in double quotes")
    ELSE LET k == ParseString(s, p)
             colon == SkipWs(s, k.pos)
             v == ParseValue(s, SkipWs(s, colon + 1))
             next == SkipWs(s, v.pos)
             members == Append(acc, Pair(k.val.s, v.val))
         IN  IF ~k.ok THEN k
             ELSE IF CharAt(s, colon) # ":" THEN JsonFail("Expecting ':' delimiter")
             ELSE IF ~v.ok THEN v
             ELSE IF CharAt(s, next) = "}" THEN JsonOk(JDict(members), next + 1)
             ELSE IF CharAt(s, next) = ","
             THEN ParseMembers(s, SkipWs(s, next + 1), members)
             ELSE JsonFail("Expecting ',' delimiter")

\* the elements of an array, the first one starting at p
ParseElements(s, p, acc) ==
    LET v == ParseValue(s, p)
        next == SkipWs(s, v.pos)
        elements == Append(acc, v.val)
    IN  IF ~v.ok THEN v
        ELSE IF CharAt(s, next) = "]" THEN JsonOk(JList(elements), next + 1)
        ELSE IF CharAt(s, next) = ","
        THEN ParseElements(s, SkipWs(s, next + 1), elements)
        ELSE JsonFail("Expecting ',' delimiter")

\* the value starting at p
ParseValue(s, p) ==
    LET c == CharAt(s, p)
    IN  IF c = Quote THEN ParseString(s, p)
        ELSE IF c = "{"
        THEN IF CharAt(s, SkipWs(s, p + 1)) = "}"
             THEN JsonOk(JDict(<<>>), SkipWs(s, p + 1) + 1)
             ELSE ParseMembers(s, SkipWs(s, p + 1), <<>>)
        ELSE IF c = "["
        THEN IF CharAt(s, SkipWs(s, p + 1)) = "]"
             THEN JsonOk(JList(<<>>), SkipWs(s, p + 1) + 1)
             ELSE ParseElements(s, SkipWs(s, p + 1), <<>>)
        ELSE IF StartsWithAt(s, p, <<"n", "u", "l", "l">>) THEN JsonOk(JNone, p + 4)
        ELSE IF StartsWithAt(s, p, <<"t", "r", "u", "e">>)
        THEN JsonOk(JBool(TRUE), p + 4)
        ELSE IF StartsWithAt(s, p, <<"f", "a", "l", "s", "e">>)
        THEN JsonOk(JBool(FALSE), p + 5)
        ELSE IF c \in Digits
        THEN LET e == IF c = "0" THEN p ELSE RunEnd(s, p, Digits)
             IN  JsonOk(JInt(SubSeq(s, p, e)), e + 1)
        ELSE JsonFail("Expecting value")

\* json.loads(s)
json_loads(s) ==
    LET v == ParseValue(s, SkipWs(s, 1))
    IN  IF ~v.ok THEN v
        ELSE IF SkipWs(s, v.pos) <= Len(s) THEN JsonFail("Extra data")
        ELSE v

-----------------------------------------------------------------------------
(* ValidationDataParser: the embedded payload                              *)

\* a clean-up that only strips
_clean_json_content_NoSlice(content) == strip(content)

_clean_json_content(content) ==
    LET stripped == strip(content)
        start == Find(<<"{">>, stripped, 1)
        end == RFind(<<"}">>, stripped)
    IN  IF start # 0 /\ end # 0 THEN SubSeq(stripped, start, end) ELSE stripped

K_json_parse_error ==
    <<"j", "s", "o", "n", "_", "p", "a", "r", "s", "e", "_", "e", "r", "r", "o", "r">>
K_raw_content ==
    <<"r", "a", "w", "_", "c", "o", "n", "t", "e", "n", "t">>

\* None without the section, the decoded payload, or the marker of a payload
\* that does not decode
_extract_raw_api_response(description) ==
    LET section == SectionContent(RAW_HEADER, description)
        json_content == _clean_json_content(section.group)
        decoded == json_loads(json_content)
    IN  IF ~section.matched THEN JNone
        ELSE IF decoded.ok THEN decoded.val
        ELSE JDict(<<Pair(K_json_parse_error, JStr(<<decoded.msg>>)),
                     Pair(K_raw_content, JStr(json_content))>>)

\* _flatten_api_response: field_mappings
field_mappings ==
    <<
      [new_field |-> "api_lead_score",
       api_field |-> <<"l", "e", "a", "d", "S", "c", "o", "r", "e">>],
      [new_field |-> "api_quality_score",
       api_field |-> <<"q", "u", "a", "l", "i", "t", "y", "S", "c", "o", "r", "e">>],
      [new_field |-> "api_fraud_score",
       api_field |-> <<"f", "r", "a", "u", "d", "S", "c", "o", "r", "e">>],
      [new_field |-> "api_data_quality_score",
       api_field |-> <<"d", "a", "t", "a", "Q", "u", "a", "l", "i", "t", "y", "S", "c", "o", "r", "e">>],
      [new_field |-> "api_recommendation",
       api_field |-> <<"r", "e", "c", "o", "m", "m", "e", "n", "d", "a", "t", "i", "o", "n">>],
      [new_field |-> "api_quality_level",
       api_field |-> <<"q", "u", "a", "l", "i", "t", "y", "L", "e", "v", "e", "l">>],
      [new_field |-> "api_fraud_risk_level",
       api_field |-> <<"f", "r", "a", "u", "d", "R", "i", "s", "k", "L", "e", "v", "e", "l">>],
      [new_field |-> "api_market_segment",
       api_field |-> <<"m", "a", "r", "k", "e", "t", "S", "e", "g", "m", "e", "n", "t">>],
      [new_field |-> "api_phone_valid",
       api_field |-> <<"p", "h", "o", "n", "e", "V", "a", "l", "i", "d">>],
      [new_field |-> "api_phone_carrier",
       api_field |-> <<"p", "h", "o", "n", "e", "C", "a", "r", "r", "i", "e", "r">>],
      [new_field |-> "api_phone_location",
       api_field |-> <<"p", "h", "o", "n", "e", "L", "o", "c", "a", "t", "i", "o", "n">>],
      [new_field |-> "api_email_valid",
       api_field |-> <<"e", "m", "a", "i", "l", "V", "a", "l", "i", "d">>],
      [new_field |-> "api_email_sendable",
       api_field |-> <<"e", "m", "a", "i", "l", "S", "e", "n", "d", "a", "b", "l", "e">>],
      [new_field |-> "api_bounce_likely",
       api_field |-> <<"i", "s", "B", "o", "u", "n", "c", "e", "L", "i", "k", "e", "l", "y">>],
      [new_field |-> "api_gibberish_email",
       api_field |-> <<"i", "s", "G", "i", "b", "b", "e", "r", "i", "s", "h", "E", "m", "a", "i", "l">>],
      [new_field |-> "api_fake_phone",
       api_field |-> <<"i", "s", "F", "a", "k", "e", "P", "h", "o", "n", "e">>],
      [new_field |-> "api_fake_lead",
       api_field |-> <<"i", "s", "F", "a", "k", "e", "L", "e", "a", "d">>],
      [new_field |-> "api_disposable_email",
       api_field |-> <<"i", "s", "D", "i", "s", "p", "o", "s", "a", "b", "l", "e">>],
      [new_field |-> "api_business_strength_score",
       api_field |-> <<"b", "u", "s", "i", "n", "e", "s", "s", "S", "t", "r", "e", "n", "g", "t", "h", "S", "c", "o", "r", "e">>],
      [new_field |-> "api_first_name",
       api_field |-> <<"f", "i", "r", "s", "t", "_", "n", "a", "m", "e">>],
      [new_field |-> "api_last_name",
       api_field |-> <<"l", "a", "s", "t", "_", "n", "a", "m", "e">>],
      [new_field |-> "api_company",
       api_field |-> <<"c", "o", "m", "p", "a", "n", "y">>],
      [new_field |-> "api_email",
       api_field |-> <<"e", "m", "a", "i", "l">>],
      [new_field |-> "api_phone",
       api_field |-> <<"p", "h", "o", "n", "e">>],
      [new_field |-> "api_state",
       api_field |-> <<"s", "t", "a", "t", "e">>],
      [new_field |-> "api_postal_code",
       api_field |-> <<"p", "o", "s", "t", "a", "l", "C", "o", "d", "e">>]
    >>

\* _flatten_api_response: the keys read from emailSummary
summary_mappings ==
    <<
      [new_field |-> "api_total_emails",
       api_field |-> <<"t", "o", "t", "a", "l", "E", "m", "a", "i", "l", "s">>],
      [new_field |-> "api_valid_emails",
       api_field |-> <<"v", "a", "l", "i", "d", "E", "m", "a", "i", "l", "s">>],
      [new_field |-> "api_sendable_emails",
       api_field |-> <<"s", "e", "n", "d", "a", "b", "l", "e", "E", "m", "a", "i", "l", "s">>],
      [new_field |-> "api_email_summary_quality_score",
       api_field |-> <<"q", "u", "a", "l", "i", "t", "y", "S", "c", "o", "r", "e">>]
    >>

\* _flatten_api_response: the arrays stored as comma-separated strings
array_mappings ==
    <<
      [new_field |-> "api_quality_factors",
       api_field |-> <<"q", "u", "a", "l", "i", "t", "y", "F", "a", "c", "t", "o", "r", "s">>],
      [new_field |-> "api_fraud_factors",
       api_field |-> <<"f", "r", "a", "u", "d", "F", "a", "c", "t", "o", "r", "s">>],
      [new_field |-> "api_summary_notes",
       api_field |-> <<"s", "u", "m", "m", "a", "r", "y", "N", "o", "t", "e", "s">>]
    >>

K_emailSummary ==
    <<"e", "m", "a", "i", "l", "S", "u", "m", "m", "a", "r", "y">>

\* key in value: a dict's keys, a list's elements, a str's substrings; other
\* values are not iterable
In(key, value) ==
    CASE value.kind = "dict" -> HasKey(value, key)
      [] value.kind = "list" ->
            \E i \in 1..Len(value.items) : value.items[i] = JStr(key)
      [] value.kind = "str" -> Contains(key, value.s)
      [] OTHER -> FALSE

\* ', '.join(parts)
RECURSIVE Join(_)
Join(parts) ==
    IF parts = <<>> THEN <<>>
    ELSE IF Len(parts) = 1 THEN parts[1]
    ELSE parts[1] \o <<",", " ">> \o Join(Tail(parts))

\* the strings ', '.join(value) iterates over: the elements of a list, the
\* characters of a str, the keys of a dict
JoinParts(value) ==
    CASE value.kind = "list" -> [i \in 1..Len(value.items) |-> value.items[i].s]
      [] value.kind = "str" -> [i \in 1..Len(value.s) |-> <<value.s[i]>>]
      [] value.kind = "dict" -> [i \in 1..Len(value.items) |-> value.items[i].key]
      [] OTHER -> <<>>

\* ', '.join(value) raises TypeError on a value that is not iterable and on a
\* list with an element that is not a str
Joinable(value) ==
    /\ value.kind \in {"list", "str", "dict"}
    /\ value.kind = "list" =>
           \A i \in 1..Len(value.items) : value.items[i].kind = "str"

FlattenRaised(exc) == [exc |-> exc, flattened |-> EmptyDict]

_flatten_api_response(api_response) ==
    LET tested == {field_mappings[i].api_field : i \in 1..Len(field_mappings)}
                  \cup {K_emailSummary}
                  \cup {array_mappings[i].api_field : i \in 1..Len(array_mappings)}
        direct == {i \in 1..Len(field_mappings) :
                      HasKey(api_response, field_mappings[i].api_field)}
        has_summary == HasKey(api_response, K_emailSummary)
        email_summary == Lookup(api_response, K_emailSummary)
        arrays == {i \in 1..Len(array_mappings) :
                      HasKey(api_response, array_mappings[i].api_field)}
        mapped ==
            [f \in {field_mappings[i].new_field : i \in direct} |->
                Lookup(api_response,
                       field_mappings[CHOOSE i \in direct :
                           field_mappings[i].new_field = f].api_field)]
        summary ==
            [f \in {summary_mappings[i].new_field :
                        i \in 1..Len(summary_mappings)} |->
                GetOrNone(email_summary,
                          summary_mappings[CHOOSE i \in 1..Len(summary_mappings) :
                              summary_mappings[i].new_field = f].api_field)]
        joined ==
            [f \in {array_mappings[i].new_field : i \in arrays} |->
                JStr(Join(JoinParts(
                    Lookup(api_response,
                           array_mappings[CHOOSE i \in arrays :
                               array_mappings[i].new_field = f].api_field))))]
    IN  IF api_response.kind \notin {"dict", "list", "str"}
        THEN FlattenRaised("TypeError")
        ELSE IF api_response.kind \in {"list", "str"}
        THEN IF \E key \in tested : In(key, api_response)
             THEN FlattenRaised("TypeError")
             ELSE [exc |-> "", flattened |-> EmptyDict]
        ELSE IF has_summary /\ email_summary.kind # "dict"
        THEN FlattenRaised("AttributeError")
        ELSE IF \E i \in arrays :
                   ~Joinable(Lookup(api_response, array_mappings[i].api_field))
        THEN FlattenRaised("TypeError")
        ELSE [exc |-> "",
              flattened |->
                  Update(Update(mapped, IF has_summary THEN summary ELSE EmptyDict),
                         joined)]

-----------------------------------------------------------------------------
(* ValidationDataParser.parse_description                                  *)

\* truthiness of a value
IsTrue(v) ==
    CASE v.kind = "none" -> FALSE
      [] v.kind = "bool" -> v.s = <<"1">>
      [] v.kind = "int" -> v.s # <<"0">>
      [] v.kind = "str" -> v.s # <<>>
      [] OTHER -> v.items # <<>>

\* the result dict of parse_description, and what it is updated with
InitialResult(description) ==
    [k \in {"raw_description", "validation_sections", "raw_api_response"} |->
        IF k = "raw_description" THEN JStr(description) ELSE JDict(<<>>)]

\* a record of the except branch that keeps a field of the success path
ErrorResult_KeepPayload(exc, description) ==
    [k \in {"parse_error", "raw_description", "raw_api_response"} |->
        IF k = "parse_error" THEN JStr(<<exc>>)
        ELSE IF k = "raw_description" THEN JStr(description)
        ELSE JDict(<<>>)]

\* the record of the except branch; str(e) is stood for by the name of the
\* exception
ErrorResult(exc, description) ==
    [k \in {"parse_error", "raw_description"} |->
        IF k = "parse_error" THEN JStr(<<exc>>) ELSE JStr(description)]

\* if raw_json: result['raw_api_response'] = raw_json and the update with the
\* flattened payload, or the except branch when the flattening raises
WithPayload(sections, raw_json, description) ==
    IF ~IsTrue(raw_json) THEN sections
    ELSE IF _flatten_api_response(raw_json).exc # ""
    THEN ErrorResult(_flatten_api_response(raw_json).exc, description)
    ELSE Update(Update(sections, [k \in {"raw_api_response"} |-> raw_json]),
                _flatten_api_response(raw_json).flattened)

parse_description(description) ==
    IF description = <<>> THEN EmptyDict
    ELSE WithPayload(
             Update(Update(Update(Update(InitialResult(description),
                 _extract_lead_validation_section(description)),
                 _extract_phone_validation_section(description)),
                 _extract_email_validation_section(description)),
                 _extract_email_summary_section(description)),
             _extract_raw_api_response(description),
             description)

-----------------------------------------------------------------------------
(* LeadValidationETL: the batch parse, its tally and the save               *)

\* a missing cell of a DataFrame
JNaN == [kind |-> "nan", s |-> <<>>, items |-> <<>>]

\* pd.notna(value)
notna(v) == v.kind \notin {"none", "nan"}

\* a or b: NaN is truthy
Or(a, b) == IF a.kind = "nan" \/ IsTrue(a) THEN a ELSE b

\* row.get(col) on a task: None without the column
TaskGet(task, col) == IF col \in DOMAIN task THEN task[col] ELSE JNone

\* the Task metadata parse_batch adds to a record; a task of the model has
\* an Id and a Description, and after the extraction its WhoId and the three
\* fields of its lead, so the other row.get(...) give None
Metadata(task) ==
    [k \in {"task_id", "who_id", "what_id", "subject", "lead_source",
            "lead_company", "lead_email", "created_date", "last_modified_date"} |->
        CASE k = "task_id" -> task.Id
          [] k = "who_id" -> TaskGet(task, "WhoId")
          [] k = "lead_source" -> TaskGet(task, "LeadSource")
          [] k = "lead_company" -> TaskGet(task, "Company")
          [] k = "lead_email" -> TaskGet(task, "Email")
          [] OTHER -> JNone]

\* the rows of the DataFrame parse_batch returns, each holding the keys of
\* its own record
parse_batch(tasks_df) ==
    [i \in 1..Len(tasks_df) |->
        Update(parse_description(tasks_df[i].Description), Metadata(tasks_df[i]))]

\* the columns of a DataFrame made from a list of dicts: every key of a record
Columns(df) == UNION {DOMAIN df[i] : i \in 1..Len(df)}

\* row.get(col) on a row of iterrows(): None without the column, NaN when
\* the record of the row has no such key
row_get(df, i, col) ==
    IF col \in DOMAIN df[i] THEN df[i][col]
    ELSE IF col \in Columns(df) THEN JNaN
    ELSE JNone

high_quality_threshold == 7

\* the body of the tally loop for row i: the counter it adds to, "none" when
\* it adds to none, "raises" when the comparison raises TypeError (scores are
\* int, bool, str or missing)
RowTally(df, i) ==
    LET quality_score ==
            Or(row_get(df, i, "quality_score"), row_get(df, i, "api_quality_score"))
    IN  IF "parse_error" \in Columns(df) /\ notna(row_get(df, i, "parse_error"))
        THEN "parsing_errors"
        ELSE IF ~notna(quality_score) THEN "none"
        ELSE IF quality_score.kind = "int"
        THEN IF IntOf(quality_score.s) >= high_quality_threshold
             THEN "high_quality_leads" ELSE "low_quality_leads"
        ELSE IF quality_score.kind = "bool" THEN "low_quality_leads"
        ELSE "raises"

\* self.results after __init__ (tasks_extracted belongs to the extraction)
InitialResults ==
    [validations_parsed |-> 0, high_quality_leads |-> 0,
     low_quality_leads |-> 0, parsing_errors |-> 0]

\* the number of rows the tally loop adds to a counter
Count(parsed_df, counter) ==
    Cardinality({i \in 1..Len(parsed_df) : RowTally(parsed_df, i) = counter})

\* parse_validation_data once parse_batch has returned: the DataFrame
\* returned and self.results after it; a comparison that raises leaves the
\* three counters as they were
Tally(results, parsed_df) ==
    IF parsed_df = <<>> THEN [parsed_df |-> <<>>, results |-> results]
    ELSE IF \E i \in 1..Len(parsed_df) : RowTally(parsed_df, i) = "raises"
    THEN [parsed_df |-> <<>>,
          results |-> [results EXCEPT !.validations_parsed = Len(parsed_df)]]
    ELSE [parsed_df |-> parsed_df,
          results |->
              [validations_parsed |-> Len(parsed_df),
               high_quality_leads |-> Count(parsed_df, "high_quality_leads"),
               low_quality_leads |-> Count(parsed_df, "low_quality_leads"),
               parsing_errors |-> Count(parsed_df, "parsing_errors")]]

parse_validation_data(results, tasks_df) == Tally(results, parse_batch(tasks_df))

\* the columns of parsed_validations that load_validation_summary reads, and
\* raw_description
StoredColumns ==
    {"task_id", "who_id", "lead_source", "quality_score", "api_quality_score",
     "api_first_name", "api_last_name", "api_email", "api_phone", "api_company",
     "lead_company", "lead_email", "created_date", "last_modified_date",
     "parse_error", "raw_description"}

\* INSERT OR REPLACE INTO validation_tasks: every task of the DataFrame is
\* written under its Id, unfiltered, all columns of the table being given. A
\* task of the model has an Id and a Description, the other cells are NULL.
\* task_id is the PRIMARY KEY, so a NULL Id fails the statement.
SaveTasks(validation_tasks, tasks_df) ==
    IF \E i \in 1..Len(tasks_df) : ~notna(tasks_df[i].Id)
    THEN [exc |-> "ConstraintException", validation_tasks |-> validation_tasks]
    ELSE [exc |-> "",
          validation_tasks |->
              [id \in DOMAIN validation_tasks
                      \cup {tasks_df[i].Id.s : i \in 1..Len(tasks_df)} |->
                  IF \E i \in 1..Len(tasks_df) : tasks_df[i].Id.s = id
                  THEN LET i == CHOOSE i \in 1..Len(tasks_df) : tasks_df[i].Id.s = id
                       IN  [task_id |-> tasks_df[i].Id,
                            description |-> JStr(tasks_df[i].Description)]
                  ELSE validation_tasks[id]]]

\* the rows of parsed_df that have a task_id
WithTaskId(parsed_df) ==
    SelectSeq(parsed_df,
              LAMBDA row : notna(row["task_id"]) /\ row["task_id"] # JStr(<<>>))

\* INSERT OR REPLACE INTO parsed_validations (column_list): column_list holds
\* the columns of the table that the DataFrame has. A new task_id gets a row
\* with these columns and NULL in the others; the row of a task_id that is
\* stored already gets these columns replaced and keeps its other cells. A
\* cell that is missing in the DataFrame is NULL.
SaveParsedRows(parsed_validations, kept) ==
    [id \in DOMAIN parsed_validations
            \cup {kept[i]["task_id"].s : i \in 1..Len(kept)} |->
        IF \E i \in 1..Len(kept) : kept[i]["task_id"].s = id
        THEN LET i == CHOOSE i \in 1..Len(kept) : kept[i]["task_id"].s = id
             IN  [c \in StoredColumns |->
                     IF c \in Columns(kept)
                     THEN IF c \in DOMAIN kept[i] /\ notna(kept[i][c])
                          THEN kept[i][c] ELSE JNone
                     ELSE IF id \in DOMAIN parsed_validations
                     THEN parsed_validations[id][c]
                     ELSE JNone]
        ELSE parsed_validations[id]]

\* save_data: the two tables after it, and the exception it re-raises. The
\* task ids of one batch are distinct.
save_data(db, tasks_df, parsed_df) ==
    IF SaveTasks(db.validation_tasks, tasks_df).exc # ""
    THEN [exc |-> SaveTasks(db.validation_tasks, tasks_df).exc,
          validation_tasks |-> db.validation_tasks,
          parsed_validations |-> db.parsed_validations]
    ELSE [exc |-> "",
          validation_tasks |-> SaveTasks(db.validation_tasks, tasks_df).validation_tasks,
          parsed_validations |->
              IF parsed_df = <<>> \/ WithTaskId(parsed_df) = <<>>
              THEN db.parsed_validations
              ELSE SaveParsedRows(db.parsed_validations, WithTaskId(parsed_df))]

\* the LeadValidationETL object after __init__, with empty tables; exc is the
\* exception that left the last call of run_full_pipeline
FreshETL ==
    [tasks_df |-> <<>>, parsed_df |-> <<>>, results |-> InitialResults,
     validation_tasks |-> [id \in {} |-> JNone],
     parsed_validations |-> [id \in {} |-> JNone], summary |-> {}, exc |-> ""]

\* run_full_pipeline once the tasks are parsed: unless nothing was parsed, save
Saved(self, tasks_df, parsed, db) ==
    [self EXCEPT
        !.tasks_df = tasks_df,
        !.parsed_df = parsed.parsed_df,
        !.results = parsed.results,
        !.validation_tasks = db.validation_tasks,
        !.parsed_validations = db.parsed_validations,
        !.exc = db.exc]

SaveParsed(self, tasks_df, parsed) ==
    IF parsed.parsed_df = <<>>
    THEN Saved(self, tasks_df, parsed,
               [exc |-> "", validation_tasks |-> self.validation_tasks,
                parsed_validations |-> self.parsed_validations])
    ELSE Saved(self, tasks_df, parsed, save_data(self, tasks_df, parsed.parsed_df))

\* run_full_pipeline on the tasks the extraction returned: parse, tally and,
\* unless nothing was parsed, save
run_full_pipeline(self, tasks_df) ==
    IF tasks_df = <<>> THEN [self EXCEPT !.exc = ""]
    ELSE SaveParsed(self, tasks_df, parse_validation_data(self.results, tasks_df))

-----------------------------------------------------------------------------
(* dashboard data_loader: load_validation_summary                           *)

\* COALESCE(a, b)
COALESCE(a, b) == IF a = JNone THEN b ELSE a

\* the CASE of the query on an integer score; a comparison with NULL is not
\* true
SummaryStatus(score) ==
    IF score.kind # "int" THEN "Invalid"
    ELSE IF IntOf(score.s) >= 9 THEN "Excellent"
    ELSE IF IntOf(score.s) >= 7 THEN "Good"
    ELSE IF IntOf(score.s) >= 5 THEN "Fair"
    ELSE IF IntOf(score.s) >= 3 THEN "Poor"
    ELSE "Invalid"

\* the rows of the query: WHERE parse_error IS NULL
load_validation_summary(parsed_validations) ==
    {[task_id |-> parsed_validations[id]["task_id"],
      overall_score |-> COALESCE(parsed_validations[id]["api_quality_score"],
                                 parsed_validations[id]["quality_score"]),
      validation_status |->
          SummaryStatus(COALESCE(parsed_validations[id]["api_quality_score"],
                                 parsed_validations[id]["quality_score"]))] :
        id \in {k \in DOMAIN parsed_validations :
                    parsed_validations[k]["parse_error"] = JNone}}

-----------------------------------------------------------------------------
(* The leads the engines are applied to                                    *)

E_test123 == Str(<<"t", "e", "s", "t", "1", "2", "3", "@", "e", "x", "a", "m", "p", "l", "e", ".", "c", "o", "m">>)
E_jane == Str(<<"j", "a", "n", "e", ".", "s", "m", "i", "t", "h", "@", "a", "c", "m", "e", "c", "o", "r", "p", ".", "c", "o", "m">>)
E_yopmail == Str(<<"b", "o", "b", "@", "y", "o", "p", "m", "a", "i", "l", ".", "n", "e", "t">>)
E_digits == Str(<<"a", "1", "2", "3", "4", "5", "6", "7", "8", "@", "c", "o", "r", "p", ".", "i", "o">>)
E_gmail == Str(<<"I", "n", "f", "o", "@", "g", "m", "a", "i", "l", ".", "c", "o", "m">>)
P_1234567890 == Str(<<"1", "2", "3", "4", "5", "6", "7", "8", "9", "0">>)
P_jane == Str(<<"+", "1", "4", "1", "5", "5", "5", "5", "2", "6", "7", "1">>)
P_fives == Str(<<"(", "5", "5", "5", ")", " ", "5", "5", "5", "-", "5", "5", "5", "5">>)
P_twodigits == Str(<<"1", "2", "1", "2", "1", "2", "1", "2", "1", "2">>)
P_sequential == Str(<<"0", "1", "2", "3", "4", "5", "6", "7", "8", "9">>)
N_A == Str(<<"A">>)
N_Jane == Str(<<"J", "a", "n", "e">>)
N_Smith == Str(<<"S", "m", "i", "t", "h">>)
N_Bob == Str(<<"B", "o", "b">>)
N_Test == Str(<<"T", "e", "s", "t">>)
N_Doe == Str(<<"D", "o", "e">>)
C_test == Str(<<"t", "e", "s", "t">>)
C_Acme == Str(<<"A", "c", "m", "e", " ", "C", "o", "r", "p", "o", "r", "a", "t", "i", "o", "n">>)
C_AB == Str(<<"A", "B">>)
C_Corp == Str(<<" ", "C", "o", "r", "p", " ">>)
X_Open == Str(<<"O", "p", "e", "n">>)
X_Manager == Str(<<"M", "a", "n", "a", "g", "e", "r">>)
X_Software == Str(<<"S", "o", "f", "t", "w", "a", "r", "e">>)
X_Web == Str(<<"W", "e", "b">>)
X_Austin == Str(<<"A", "u", "s", "t", "i", "n">>)
X_TX == Str(<<"T", "X">>)
X_USA == Str(<<"U", "S", "A">>)
X_TBD == Str(<<"T", "B", "D">>)
X_blank == Str(<<" ", " ">>)

Empty == Str(<<>>)

\* an absent field: the key is missing, or holds None or ''
AbsentValues == {KeyMissing, PyNone, Empty}

EmailValues == AbsentValues \cup {E_test123, E_jane, E_yopmail, E_digits, E_gmail}
PhoneValues == AbsentValues \cup {P_1234567890, P_jane, P_fives, P_twodigits, P_sequential}
FirstNameValues == AbsentValues \cup {N_A, N_Jane, N_Bob, N_Test}
LastNameValues == AbsentValues \cup {N_A, N_Smith, N_Bob, N_Doe}
CompanyValues == AbsentValues \cup {C_test, C_Acme, C_AB, C_Corp}

CoreFields == {"Email", "Phone", "FirstName", "LastName", "Company"}
ExtraFields == {"Status", "Title", "Industry", "LeadSource", "City", "State", "Country"}
Fields == CoreFields \cup ExtraFields

\* the fields of a lead besides the five the fraud engine reads
ExtrasNone == [k \in ExtraFields |-> KeyMissing]
ExtrasFull ==
    [k \in ExtraFields |->
        CASE k = "Status" -> X_Open
          [] k = "Title" -> X_Manager
          [] k = "Industry" -> X_Software
          [] k = "LeadSource" -> X_Web
          [] k = "City" -> X_Austin
          [] k = "State" -> X_TX
          [] k = "Country" -> X_USA]
ExtrasPartial ==
    [k \in ExtraFields |->
        CASE k = "Status" -> X_Open
          [] k = "Title" -> X_TBD
          [] k = "City" -> X_blank
          [] k = "Country" -> PyNone
          [] OTHER -> KeyMissing]
ExtrasValues == {ExtrasNone, ExtrasFull, ExtrasPartial}

MakeLead(e, p, f, l, c, x) ==
    [k \in Fields |->
        CASE k = "Email" -> e
          [] k = "Phone" -> p
          [] k = "FirstName" -> f
          [] k = "LastName" -> l
          [] k = "Company" -> c
          [] OTHER -> x[k]]

\* the leads calculate_fraud_score is applied to: every combination of the
\* five fields it reads, on a lead with nothing else or with every other field
Leads ==
    {MakeLead(e, p, f, l, c, ExtrasNone) :
        e \in EmailValues, p \in PhoneValues, f \in FirstNameValues,
        l \in LastNameValues, c \in CompanyValues}
    \cup
    {MakeLead(e, p, f, l, c, ExtrasFull) :
        e \in {KeyMissing, E_test123, E_jane},
        p \in {PyNone, P_1234567890, P_jane},
        f \in {Empty, N_A, N_Jane},
        l \in {Empty, N_A, N_Smith},
        c \in {KeyMissing, C_test, C_Acme}}

\* the leads validate_lead is applied to
ValidateLeads ==
    {MakeLead(e, p, f, l, c, x) :
        e \in {KeyMissing, PyNone, Empty, E_test123, E_jane, E_gmail},
        p \in {KeyMissing, P_1234567890, P_jane},
        f \in {PyNone, Empty, N_A, N_Jane, N_Test},
        l \in {KeyMissing, N_A, N_Smith},
        c \in {Empty, C_test, C_Acme, C_AB},
        x \in ExtrasValues}

\* what phonenumbers can do with a number
PhoneOutcomes == {"valid", "invalid", "parse_error"}

\* the scores _determine_validation_status is called with directly: k / ProbeDen
ProbeDen == 20
ProbeScores == {R(k, ProbeDen) : k \in 0..ProbeDen}
MaxProbes == 2

NotCalled == [exc |-> "not called"]

-----------------------------------------------------------------------------
(* FraudDetectionEngine.calculate_fraud_score on one lead                  *)

Init ==
    /\ lead \in Leads
    /\ pc = "start"
    /\ fraud = NotCalled
    /\ result = NotCalled
    /\ probes = {}
    /\ etl = FreshETL

CalculateFraudScore ==
    /\ pc = "start"
    /\ fraud' = calculate_fraud_score(lead)
    /\ pc' = "fraud"
    /\ UNCHANGED <<lead, result, probes, etl>>

Next ==
    \/ CalculateFraudScore

Spec == Init /\ [][Next]_vars

-----------------------------------------------------------------------------
(* LeadValidationRules.validate_lead on one lead                           *)

InitValidate ==
    /\ lead \in ValidateLeads
    /\ pc = "start"
    /\ fraud = NotCalled
    /\ result = NotCalled
    /\ probes = {}
    /\ etl = FreshETL

\* email_validator accepts no address without an '@'; an absent email or
\* phone never reaches a validator
ValidateLead(email_accepted, phone_outcome) ==
    /\ pc = "start"
    /\ email_accepted => Truthy(Get(lead, "Email")) /\ count(lead["Email"].s, "@") > 0
    /\ ~Truthy(Get(lead, "Phone")) => phone_outcome = "invalid"
    /\ result' = validate_lead(lead, email_accepted, phone_outcome)
    /\ pc' = "validated"
    /\ UNCHANGED <<lead, fraud, probes, etl>>

NextValidate ==
    \/ \E a \in BOOLEAN, o \in PhoneOutcomes : ValidateLead(a, o)

SpecValidate == InitValidate /\ [][NextValidate]_vars

-----------------------------------------------------------------------------
(* LeadValidationRules._determine_validation_status, called directly       *)

EmptyLead == [k \in Fields |-> KeyMissing]

InitStatus ==
    /\ lead = EmptyLead
    /\ pc = "status"
    /\ fraud = NotCalled
    /\ result = NotCalled
    /\ probes = {}
    /\ etl = FreshETL

DetermineValidationStatus(score) ==
    /\ pc = "status"
    /\ Cardinality(probes) < MaxProbes
    /\ probes' = probes \cup
           {[score |-> score, status |-> _determine_validation_status(score)]}
    /\ UNCHANGED <<lead, pc, fraud, result, etl>>

NextStatus ==
    \/ \E s \in ProbeScores : DetermineValidationStatus(s)

SpecStatus == InitStatus /\ [][NextStatus]_vars

-----------------------------------------------------------------------------
(* LeadValidationRules._calculate_data_quality_score, called directly      *)

\* what a dimension of the validation details can hold: a score of 0, 1/2 or
\* 1, or a result without a score
DimEntries == {[score |-> Zero], [score |-> R(1, 2)], [score |-> One],
               [field |-> "unscored"]}

\* the dimensions validate_lead puts in the validation details
AllDims == {"email", "phone", "name", "company", "completeness",
            "data_quality", "fraud"}

\* the validation details the function is called with: any subset of the
\* dimensions (an engine run with a partial field set)
QualityDetails ==
    {d \in UNION {[S -> DimEntries] : S \in SUBSET AllDims} :
        \A k \in DOMAIN d \cap {"data_quality", "fraud"} : d[k] = [score |-> One]}

InitQuality ==
    /\ lead = EmptyLead
    /\ pc = "quality"
    /\ fraud = NotCalled
    /\ result = NotCalled
    /\ probes = {}
    /\ etl = FreshETL

CalculateDataQualityScore(validation_details) ==
    /\ pc = "quality"
    /\ probes = {}
    /\ probes' = {[details |-> validation_details,
                   score |-> _calculate_data_quality_score(validation_details)]}
    /\ UNCHANGED <<lead, pc, fraud, result, etl>>

NextQuality ==
    \/ \E d \in QualityDetails : CalculateDataQualityScore(d)

SpecQuality == InitQuality /\ [][NextQuality]_vars

-----------------------------------------------------------------------------
(* The descriptions parse_description is applied to                        *)

\* the text before the first section
T_Preamble ==
    <<"L", "e", "a", "d", " ", "v", "a", "l", "i", "d", "a", "t", "e", "d", "\n", "\n">>

\* the LEAD VALIDATION RESULTS section: every field; labels in lower case
\* and null values; labels with nothing after them
T_LeadFull ==
    <<"=", "=", "=", " ", "L", "E", "A", "D", " ", "V", "A", "L", "I", "D", "A", "T", "I", "O", "N", " ", "R", "E", "S", "U", "L", "T", "S", " ", "=", "=", "=", "\n", "L", "e", "a", "d", " ", "S", "c", "o", "r", "e", ":", " ", "8", "5", "\n", "Q", "u", "a", "l", "i", "t", "y", " ", "S", "c", "o", "r", "e", ":", " ", "8", "\n", "D", "a", "t", "a", " ", "Q", "u", "a", "l", "i", "t", "y", ":", " ", "9", "0", "%", "\n", "F", "r", "a", "u", "d", " ", "S", "c", "o", "r", "e", ":", " ", "0", "0", "7", "\n", "R", "e", "c", "o", "m", "m", "e", "n", "d", "a", "t", "i", "o", "n", ":", " ", "A", "P", "P", "R", "O", "V", "E", "\n", "Q", "u", "a", "l", "i", "t", "y", " ", "L", "e", "v", "e", "l", ":", " ", "H", "i", "g", "h", "\n", "F", "r", "a", "u", "d", " ", "R", "i", "s", "k", ":", " ", "L", "o", "w", "\n", "M", "a", "r", "k", "e", "t", " ", "S", "e", "g", "m", "e", "n", "t", ":", " ", "S", "m", "a", "l", "l", " ", "B", "u", "s", "i", "n", "e", "s", "s", " ", "\n", "\n">>
T_LeadNull ==
    <<"=", "=", "=", " ", "L", "E", "A", "D", " ", "V", "A", "L", "I", "D", "A", "T", "I", "O", "N", " ", "R", "E", "S", "U", "L", "T", "S", " ", "=", "=", "=", "\n", "q", "u", "a", "l", "i", "t", "y", " ", "s", "c", "o", "r", "e", ":", " ", "3", "\n", "R", "e", "c", "o", "m", "m", "e", "n", "d", "a", "t", "i", "o", "n", ":", " ", "n", "u", "l", "l", "\n", "M", "a", "r", "k", "e", "t", " ", "S", "e", "g", "m", "e", "n", "t", ":", " ", "N", "U", "L", "L", "\n", "\n">>
T_LeadBlank ==
    <<"=", "=", "=", " ", "L", "E", "A", "D", " ", "V", "A", "L", "I", "D", "A", "T", "I", "O", "N", " ", "R", "E", "S", "U", "L", "T", "S", " ", "=", "=", "=", "\n", "L", "e", "a", "d", " ", "S", "c", "o", "r", "e", ":", "\n", "Q", "u", "a", "l", "i", "t", "y", " ", "S", "c", "o", "r", "e", ":", " ", "n", "/", "a", "\n", "D", "a", "t", "a", " ", "Q", "u", "a", "l", "i", "t", "y", ":", " ", "5", "0", "\n", "F", "r", "a", "u", "d", " ", "R", "i", "s", "k", ":", "\n", "M", "a", "r", "k", "e", "t", " ", "S", "e", "g", "m", "e", "n", "t", ":", "\n", "\n">>

\* the PHONE VALIDATION section
T_PhoneFull ==
    <<"=", "=", "=", " ", "P", "H", "O", "N", "E", " ", "V", "A", "L", "I", "D", "A", "T", "I", "O", "N", " ", "=", "=", "=", "\n", "P", "h", "o", "n", "e", " ", "V", "a", "l", "i", "d", ":", " ", "t", "r", "u", "e", "\n", "C", "a", "r", "r", "i", "e", "r", ":", " ", "V", "e", "r", "i", "z", "o", "n", "\n", "T", "y", "p", "e", ":", " ", "m", "o", "b", "i", "l", "e", "\n", "N", "a", "t", "i", "o", "n", "a", "l", " ", "F", "o", "r", "m", "a", "t", ":", " ", "(", "4", "1", "5", ")", " ", "5", "5", "5", "-", "2", "6", "7", "1", "\n", "\n">>
T_PhoneNull ==
    <<"=", "=", "=", " ", "P", "H", "O", "N", "E", " ", "V", "A", "L", "I", "D", "A", "T", "I", "O", "N", " ", "=", "=", "=", "\n", "P", "h", "o", "n", "e", " ", "V", "a", "l", "i", "d", ":", " ", "F", "A", "L", "S", "E", "\n", "C", "a", "r", "r", "i", "e", "r", ":", " ", "n", "u", "l", "l", "\n", "T", "y", "p", "e", ":", " ", "N", "u", "l", "l", "\n", "\n">>
T_PhoneBlank ==
    <<"=", "=", "=", " ", "P", "H", "O", "N", "E", " ", "V", "A", "L", "I", "D", "A", "T", "I", "O", "N", " ", "=", "=", "=", "\n", "P", "h", "o", "n", "e", " ", "V", "a", "l", "i", "d", ":", " ", "u", "n", "k", "n", "o", "w", "n", "\n", "C", "a", "r", "r", "i", "e", "r", ":", "\n", "T", "y", "p", "e", ":", " ", "l", "a", "n", "d", "l", "i", "n", "e", "\n", "\n">>

\* the EMAIL VALIDATION section
T_EmailFull ==
    <<"=", "=", "=", " ", "E", "M", "A", "I", "L", " ", "V", "A", "L", "I", "D", "A", "T", "I", "O", "N", " ", "=", "=", "=", "\n", "E", "m", "a", "i", "l", " ", "V", "a", "l", "i", "d", ":", " ", "t", "r", "u", "e", "\n", "E", "m", "a", "i", "l", " ", "S", "e", "n", "d", "a", "b", "l", "e", ":", " ", "f", "a", "l", "s", "e", "\n", "B", "o", "u", "n", "c", "e", " ", "L", "i", "k", "e", "l", "y", ":", " ", "F", "a", "l", "s", "e", "\n", "G", "i", "b", "b", "e", "r", "i", "s", "h", " ", "S", "c", "o", "r", "e", ":", " ", "0", ".", "1", "2", "\n", "\n">>
T_EmailNull ==
    <<"=", "=", "=", " ", "E", "M", "A", "I", "L", " ", "V", "A", "L", "I", "D", "A", "T", "I", "O", "N", " ", "=", "=", "=", "\n", "E", "m", "a", "i", "l", " ", "V", "a", "l", "i", "d", ":", " ", "y", "e", "s", "\n", "G", "i", "b", "b", "e", "r", "i", "s", "h", " ", "S", "c", "o", "r", "e", ":", " ", "N", "U", "L", "L", "\n", "\n">>

\* the EMAIL SUMMARY section
T_SummaryFull ==
    <<"=", "=", "=", " ", "E", "M", "A", "I", "L", " ", "S", "U", "M", "M", "A", "R", "Y", " ", "=", "=", "=", "\n", "T", "o", "t", "a", "l", " ", "E", "m", "a", "i", "l", "s", ":", " ", "3", "\n", "V", "a", "l", "i", "d", " ", "E", "m", "a", "i", "l", "s", ":", " ", "2", "\n", "S", "e", "n", "d", "a", "b", "l", "e", " ", "E", "m", "a", "i", "l", "s", ":", " ", "2", "\n", "E", "m", "a", "i", "l", " ", "Q", "u", "a", "l", "i", "t", "y", " ", "S", "c", "o", "r", "e", ":", " ", "7", "5", "\n", "\n">>
T_SummaryPart ==
    <<"=", "=", "=", " ", "E", "M", "A", "I", "L", " ", "S", "U", "M", "M", "A", "R", "Y", " ", "=", "=", "=", "\n", "T", "o", "t", "a", "l", " ", "E", "m", "a", "i", "l", "s", ":", " ", "t", "h", "r", "e", "e", "\n", "V", "a", "l", "i", "d", " ", "E", "m", "a", "i", "l", "s", ":", " ", "0", "\n", "\n">>

\* the RAW API RESPONSE section: payloads that decode, payloads that do not,
\* payloads that are no dict or hold values of unexpected types
R_Full ==
    <<"=", "=", "=", " ", "R", "A", "W", " ", "A", "P", "I", " ", "R", "E", "S", "P", "O", "N", "S", "E", " ", "=", "=", "=", "\n", "{", "\"", "l", "e", "a", "d", "S", "c", "o", "r", "e", "\"", ":", " ", "8", "5", ",", " ", "\"", "q", "u", "a", "l", "i", "t", "y", "S", "c", "o", "r", "e", "\"", ":", " ", "8", ",", " ", "\"", "r", "e", "c", "o", "m", "m", "e", "n", "d", "a", "t", "i", "o", "n", "\"", ":", " ", "\"", "A", "P", "P", "R", "O", "V", "E", "\"", ",", " ", "\"", "p", "h", "o", "n", "e", "V", "a", "l", "i", "d", "\"", ":", " ", "t", "r", "u", "e", ",", " ", "\"", "p", "h", "o", "n", "e", "C", "a", "r", "r", "i", "e", "r", "\"", ":", " ", "n", "u", "l", "l", ",", " ", "\"", "e", "m", "a", "i", "l", "S", "u", "m", "m", "a", "r", "y", "\"", ":", " ", "{", "\"", "t", "o", "t", "a", "l", "E", "m", "a", "i", "l", "s", "\"", ":", " ", "3", ",", " ", "\"", "v", "a", "l", "i", "d", "E", "m", "a", "i", "l", "s", "\"", ":", " ", "2", ",", " ", "\"", "s", "e", "n", "d", "a", "b", "l", "e", "E", "m", "a", "i", "l", "s", "\"", ":", " ", "2", ",", " ", "\"", "q", "u", "a", "l", "i", "t", "y", "S", "c", "o", "r", "e", "\"", ":", " ", "7", "5", "}", ",", " ", "\"", "q", "u", "a", "l", "i", "t", "y", "F", "a", "c", "t", "o", "r", "s", "\"", ":", " ", "[", "\"", "V", "a", "l", "i", "d", " ", "p", "h", "o", "n", "e", "\"", ",", " ", "\"", "B", "u", "s", "i", "n", "e", "s", "s", " ", "e", "m", "a", "i", "l", "\"", "]", ",", " ", "\"", "f", "r", "a", "u", "d", "F", "a", "c", "t", "o", "r", "s", "\"", ":", " ", "[", "]", "}", "\n">>
R_PartSummary ==
    <<"=", "=", "=", " ", "R", "A", "W", " ", "A", "P", "I", " ", "R", "E", "S", "P", "O", "N", "S", "E", " ", "=", "=", "=", "\n", "{", "\"", "q", "u", "a", "l", "i", "t", "y", "S", "c", "o", "r", "e", "\"", ":", " ", "4", ",", " ", "\"", "e", "m", "a", "i", "l", "S", "u", "m", "m", "a", "r", "y", "\"", ":", " ", "{", "\"", "t", "o", "t", "a", "l", "E", "m", "a", "i", "l", "s", "\"", ":", " ", "1", "}", "}", "\n">>
R_Malformed ==
    <<"=", "=", "=", " ", "R", "A", "W", " ", "A", "P", "I", " ", "R", "E", "S", "P", "O", "N", "S", "E", " ", "=", "=", "=", "\n", "{", "\"", "l", "e", "a", "d", "S", "c", "o", "r", "e", "\"", ":", " ", "8", "5", ",", " ", "\"", "q", "u", "a", "l", "i", "t", "y", "S", "c", "o", "r", "e", "\"", ":", " ", "}", "\n">>
R_Truncated ==
    <<"=", "=", "=", " ", "R", "A", "W", " ", "A", "P", "I", " ", "R", "E", "S", "P", "O", "N", "S", "E", " ", "=", "=", "=", "\n", "{", "\"", "l", "e", "a", "d", "S", "c", "o", "r", "e", "\"", ":", " ", "8", "5", ",", " ", "\"", "q", "u", "a", "l", "i", "t", "y", "F", "a", "c">>
R_NoBraces ==
    <<"=", "=", "=", " ", "R", "A", "W", " ", "A", "P", "I", " ", "R", "E", "S", "P", "O", "N", "S", "E", " ", "=", "=", "=", "\n", "S", "e", "r", "v", "i", "c", "e", " ", "u", "n", "a", "v", "a", "i", "l", "a", "b", "l", "e", "\n">>
R_NullFactors ==
    <<"=", "=", "=", " ", "R", "A", "W", " ", "A", "P", "I", " ", "R", "E", "S", "P", "O", "N", "S", "E", " ", "=", "=", "=", "\n", "{", "\"", "q", "u", "a", "l", "i", "t", "y", "S", "c", "o", "r", "e", "\"", ":", " ", "9", ",", " ", "\"", "q", "u", "a", "l", "i", "t", "y", "F", "a", "c", "t", "o", "r", "s", "\"", ":", " ", "n", "u", "l", "l", "}", "\n">>
R_NumberFactors ==
    <<"=", "=", "=", " ", "R", "A", "W", " ", "A", "P", "I", " ", "R", "E", "S", "P", "O", "N", "S", "E", " ", "=", "=", "=", "\n", "{", "\"", "f", "r", "a", "u", "d", "F", "a", "c", "t", "o", "r", "s", "\"", ":", " ", "[", "1", ",", " ", "2", "]", "}", "\n">>
R_SummaryNull ==
    <<"=", "=", "=", " ", "R", "A", "W", " ", "A", "P", "I", " ", "R", "E", "S", "P", "O", "N", "S", "E", " ", "=", "=", "=", "\n", "{", "\"", "e", "m", "a", "i", "l", "S", "u", "m", "m", "a", "r", "y", "\"", ":", " ", "n", "u", "l", "l", "}", "\n">>
R_NotesString ==
    <<"=", "=", "=", " ", "R", "A", "W", " ", "A", "P", "I", " ", "R", "E", "S", "P", "O", "N", "S", "E", " ", "=", "=", "=", "\n", "{", "\"", "s", "u", "m", "m", "a", "r", "y", "N", "o", "t", "e", "s", "\"", ":", " ", "\"", "o", "k", "\"", "}", "\n">>
R_Empty ==
    <<"=", "=", "=", " ", "R", "A", "W", " ", "A", "P", "I", " ", "R", "E", "S", "P", "O", "N", "S", "E", " ", "=", "=", "=", "\n", "{", "}", "\n">>
R_Wrapped ==
    <<"=", "=", "=", " ", "R", "A", "W", " ", "A", "P", "I", " ", "R", "E", "S", "P", "O", "N", "S", "E", " ", "=", "=", "=", "\n", "R", "e", "s", "p", "o", "n", "s", "e", ":", " ", "{", "\"", "f", "r", "a", "u", "d", "S", "c", "o", "r", "e", "\"", ":", " ", "2", "}", " ", "(", "e", "n", "d", ")", "\n">>
R_Reversed ==
    <<"=", "=", "=", " ", "R", "A", "W", " ", "A", "P", "I", " ", "R", "E", "S", "P", "O", "N", "S", "E", " ", "=", "=", "=", "\n", "}", " ", "{", "\n">>
R_List ==
    <<"=", "=", "=", " ", "R", "A", "W", " ", "A", "P", "I", " ", "R", "E", "S", "P", "O", "N", "S", "E", " ", "=", "=", "=", "\n", "[", "1", ",", " ", "2", "]", "\n">>
R_Null ==
    <<"=", "=", "=", " ", "R", "A", "W", " ", "A", "P", "I", " ", "R", "E", "S", "P", "O", "N", "S", "E", " ", "=", "=", "=", "\n", "n", "u", "l", "l", "\n">>
R_StringKey ==
    <<"=", "=", "=", " ", "R", "A", "W", " ", "A", "P", "I", " ", "R", "E", "S", "P", "O", "N", "S", "E", " ", "=", "=", "=", "\n", "\"", "l", "e", "a", "d", "S", "c", "o", "r", "e", "\"", "\n">>
R_Number ==
    <<"=", "=", "=", " ", "R", "A", "W", " ", "A", "P", "I", " ", "R", "E", "S", "P", "O", "N", "S", "E", " ", "=", "=", "=", "\n", "5", "\n">>

\* descriptions without any of the five headers, and one with the payload
\* before the text section
\* a payload whose quality score is a string
R_StringScore ==
    <<"=", "=", "=", " ", "R", "A", "W", " ", "A", "P", "I", " ", "R", "E", "S", "P", "O", "N", "S", "E", " ", "=", "=", "=", "\n", "{", "\"", "q", "u", "a", "l", "i", "t", "y", "S", "c", "o", "r", "e", "\"", ":", " ", "\"", "8", "\"", "}", "\n">>
T_Labels ==
    <<"L", "e", "a", "d", " ", "S", "c", "o", "r", "e", ":", " ", "8", "5", "\n", "P", "h", "o", "n", "e", " ", "V", "a", "l", "i", "d", ":", " ", "t", "r", "u", "e", "\n", "T", "o", "t", "a", "l", " ", "E", "m", "a", "i", "l", "s", ":", " ", "3", "\n">>
T_Plain ==
    <<"n", "o", " ", "v", "a", "l", "i", "d", "a", "t", "i", "o", "n", " ", "d", "a", "t", "a">>
T_TwoEquals ==
    <<"=", "=", " ", "L", "E", "A", "D", " ", "V", "A", "L", "I", "D", "A", "T", "I", "O", "N", " ", "R", "E", "S", "U", "L", "T", "S", " ", "=", "=", "\n", "L", "e", "a", "d", " ", "S", "c", "o", "r", "e", ":", " ", "1", "\n">>
T_Payload ==
    <<"{", "\"", "l", "e", "a", "d", "S", "c", "o", "r", "e", "\"", ":", " ", "8", "5", "}">>
T_Unknown ==
    <<"=", "=", "=", " ", "N", "O", "T", "E", "S", " ", "=", "=", "=", "\n", "L", "e", "a", "d", " ", "S", "c", "o", "r", "e", ":", " ", "8", "5", "\n">>
T_RawFirst ==
    <<"=", "=", "=", " ", "R", "A", "W", " ", "A", "P", "I", " ", "R", "E", "S", "P", "O", "N", "S", "E", " ", "=", "=", "=", "\n", "{", "\"", "q", "u", "a", "l", "i", "t", "y", "S", "c", "o", "r", "e", "\"", ":", " ", "6", "}", "\n", "=", "=", "=", " ", "L", "E", "A", "D", " ", "V", "A", "L", "I", "D", "A", "T", "I", "O", "N", " ", "R", "E", "S", "U", "L", "T", "S", " ", "=", "=", "=", "\n", "L", "e", "a", "d", " ", "S", "c", "o", "r", "e", ":", " ", "2", "0", "\n">>

LeadTexts == {<<>>, T_LeadFull, T_LeadNull, T_LeadBlank}
PhoneTexts == {<<>>, T_PhoneFull, T_PhoneNull, T_PhoneBlank}
EmailTexts == {<<>>, T_EmailFull, T_EmailNull}
SummaryTexts == {<<>>, T_SummaryFull, T_SummaryPart}
RawTexts ==
    {<<>>, R_Full, R_PartSummary, R_Malformed, R_Truncated, R_NoBraces,
     R_NullFactors, R_NumberFactors, R_SummaryNull, R_NotesString, R_Empty,
     R_Wrapped, R_Reversed, R_List, R_Null, R_StringKey, R_Number}
HeaderlessTexts == {T_Labels, T_Plain, T_TwoEquals, T_Payload}

Descriptions ==
    {l \o p \o r :
        l \in LeadTexts, p \in PhoneTexts, r \in {<<>>, R_PartSummary, R_Malformed}}
    \cup {e \o s \o r : e \in EmailTexts, s \in SummaryTexts, r \in RawTexts}
    \cup {T_Preamble \o T_LeadFull \o T_PhoneFull \o T_EmailFull
             \o T_SummaryFull \o r : r \in RawTexts}
    \cup HeaderlessTexts \cup {T_Unknown, T_RawFirst}

-----------------------------------------------------------------------------
(* ValidationDataParser.parse_description on one description               *)

InitParse ==
    /\ lead = EmptyLead
    /\ pc = "parse"
    /\ fraud = NotCalled
    /\ result = NotCalled
    /\ probes = {}
    /\ etl = FreshETL

ParseDescription(description) ==
    /\ pc = "parse"
    /\ probes = {}
    /\ probes' = {[description |-> description,
                   parsed |-> parse_description(description)]}
    /\ UNCHANGED <<lead, pc, fraud, result, etl>>

NextParse ==
    \/ \E d \in Descriptions : ParseDescription(d)

SpecParse == InitParse /\ [][NextParse]_vars

-----------------------------------------------------------------------------
(* LeadValidationETL.run_full_pipeline, then the dashboard's summary       *)

MaxBatch == 2

\* the descriptions of the tasks of a batch: sections and payload, sections
\* and a payload that does not decode, a payload that cannot be flattened,
\* plain text, no text, only a payload, only a section, a payload whose score
\* is a string, a section and a payload whose scores differ
BatchDescriptions ==
    {T_LeadFull \o R_Full, T_LeadFull \o R_Malformed, R_NullFactors, T_Plain,
     <<>>, R_PartSummary, T_LeadNull, R_StringScore, T_LeadFull \o R_PartSummary}

\* the Id of the i-th task of a batch
TaskId(i) == JStr(<<"0", "0", "T">> \o <<UpperChars[i]>>)

\* the batches the extraction returns
Batches ==
    UNION {{[i \in 1..n |-> [Id |-> TaskId(i), Description |-> f[i]]] :
               f \in [1..n -> BatchDescriptions]} : n \in 1..MaxBatch}

\* batches in which a task has no Id (None) or an empty one
BadIds == {JNone, JStr(<<>>)}
BadIdBatches ==
    UNION {{[i \in 1..n |-> [Id |-> ids[i], Description |-> f[i]]] :
               f \in [1..n -> {T_LeadFull \o R_Full, T_Plain, T_LeadFull \o R_Malformed}],
               ids \in {g \in [1..n -> {TaskId(1), TaskId(2)} \cup BadIds] :
                           /\ \E i \in 1..n : g[i] \in BadIds
                           /\ \A i, j \in 1..n : i # j /\ notna(g[i]) => g[i] # g[j]}} :
           n \in 1..MaxBatch}

InitBatch ==
    /\ lead = EmptyLead
    /\ pc = "etl"
    /\ fraud = NotCalled
    /\ result = NotCalled
    /\ probes = {}
    /\ etl = FreshETL

RunFullPipeline(tasks_df) ==
    /\ pc = "etl"
    /\ pc' = "saved"
    /\ etl' = run_full_pipeline(etl, tasks_df)
    /\ UNCHANGED <<lead, fraud, result, probes>>

LoadValidationSummary ==
    /\ pc = "saved"
    /\ pc' = "loaded"
    /\ etl' = [etl EXCEPT !.summary = load_validation_summary(etl.parsed_validations)]
    /\ UNCHANGED <<lead, fraud, result, probes>>

NextBatch ==
    \/ \E tasks_df \in Batches \cup BadIdBatches : RunFullPipeline(tasks_df)
    \/ LoadValidationSummary

SpecBatch == InitBatch /\ [][NextBatch]_vars

-----------------------------------------------------------------------------
(* Properties of calculate_fraud_score (specification Spec)                *)

Returned == pc = "fraud" /\ fraud.exc = ""

\* a score whose denominator divides 100, in hundredths
Hundredths(s) == s.n * (100 \div s.d)

InUnit(s) == RLe(Zero, s) /\ RLe(s, One)

EmailSub == _check_email_fraud(Get(lead, "Email")).score
PhoneSub == _check_phone_fraud(Get(lead, "Phone")).score
NameSub == _check_name_fraud(Get(lead, "FirstName"), Get(lead, "LastName")).score
CompanySub == _check_company_fraud(Get(lead, "Company")).score
ConsistencySub == _check_pattern_consistency(lead).score

\* a field is absent: its key is missing, or holds None or ''
Absent(field) == lead[field] \in AbsentValues

\* C1: the fraud score returned is min(1.0, 0.30*email + 0.25*phone + 0.20*name
\* + 0.15*company + 0.10*consistency), each sub-score being the [0,1] result
\* of its sub-check on the lead
C1_WeightedSum ==
    Returned =>
        /\ InUnit(EmailSub) /\ InUnit(PhoneSub) /\ InUnit(NameSub)
        /\ InUnit(CompanySub) /\ InUnit(ConsistencySub)
        /\ fraud.fraud_score =
               RMin(One, R(30 * Hundredths(EmailSub) + 25 * Hundredths(PhoneSub)
                           + 20 * Hundredths(NameSub) + 15 * Hundredths(CompanySub)
                           + 10 * Hundredths(ConsistencySub), 10000))

\* C1 witness: a call returned with all five sub-scores positive
C1_Witness ==
    /\ Returned
    /\ RLt(Zero, EmailSub) /\ RLt(Zero, PhoneSub) /\ RLt(Zero, NameSub)
    /\ RLt(Zero, CompanySub) /\ RLt(Zero, ConsistencySub)

\* C2: for every combination of present and absent fields the call yields a
\* fraud score in [0,1], and with all five absent the score is 0 and the risk
\* tier MINIMAL
C2_ScoreInUnitInterval ==
    pc = "fraud" =>
        /\ fraud.exc = ""
        /\ InUnit(fraud.fraud_score)
        /\ (\A f \in CoreFields : Absent(f)) =>
               fraud.fraud_score = Zero /\ fraud.risk_level = "MINIMAL"

\* C3: with any subset of the five fields absent (key missing, None or '') the
\* call raises no exception and every sub-check whose field is absent
\* contributes 0, the consistency check included
C3_NoExceptionOnAbsentFields ==
    pc = "fraud" =>
        /\ fraud.exc = ""
        /\ Absent("Email") => EmailSub = Zero
        /\ Absent("Phone") => PhoneSub = Zero
        /\ (Absent("FirstName") \/ Absent("LastName")) => NameSub = Zero
        /\ Absent("Company") => CompanySub = Zero
        /\ (Absent("Email") \/ Absent("FirstName") \/ Absent("LastName")) =>
               ConsistencySub = Zero

\* the phone, stripped of formatting, is one of the known-fake numbers
KnownFakePhone ==
    /\ Truthy(Get(lead, "Phone"))
    /\ InList(DigitsOnly(lead["Phone"].s), fake_phone_patterns)

\* the email matches one of the known-fake patterns
KnownFakeEmail ==
    /\ Truthy(Get(lead, "Email"))
    /\ \E i \in 1..Len(fake_email_patterns) :
           re_match(fake_email_patterns[i], lower(lead["Email"].s))

\* C4 as stated: a known-fake phone or a known-fake email always yields a
\* fraud score >= 0.9
C4_Original ==
    (Returned /\ (KnownFakePhone \/ KnownFakeEmail)) =>
        RGe(fraud.fraud_score, R(9, 10))

\* C4 amended: a known-fake phone or email gives its own sub-check the score
\* 1.0 (>= 0.9); the fraud score returned is at least the weight of that
\* sub-check: 0.25 for the phone, 0.30 for the email, 0.55 for both
C4_KnownFakeSubScore ==
    /\ KnownFakePhone => PhoneSub = One
    /\ KnownFakeEmail => EmailSub = One
    /\ Returned =>
        /\ KnownFakePhone => RGe(fraud.fraud_score, R(25, 100))
        /\ KnownFakeEmail => RGe(fraud.fraud_score, R(30, 100))
        /\ (KnownFakePhone /\ KnownFakeEmail) => RGe(fraud.fraud_score, R(55, 100))

\* C4 witness: a returned score of exactly 0.25, from a known-fake phone alone
C4_Witness ==
    Returned /\ KnownFakePhone /\ ~KnownFakeEmail /\ fraud.fraud_score = R(25, 100)

\* the lead of the first end-to-end scenario
FakeLead == MakeLead(E_test123, P_1234567890, N_A, N_A, C_test, ExtrasNone)

\* C5 as stated: the scenario lead gets a fraud score >= 0.9 and the tier
\* CRITICAL or HIGH
C5_Original ==
    (Returned /\ lead = FakeLead) =>
        /\ RGe(fraud.fraud_score, R(9, 10))
        /\ fraud.risk_level \in {"CRITICAL", "HIGH"}

\* C5 amended: the scenario lead gets the fraud score 0.78 (fake email, fake
\* phone, identical name and generic company all matched; the consistency
\* check finds "a" in the email), the tier HIGH and the verdict likely fake
C5_FakeLeadScore ==
    (Returned /\ lead = FakeLead) =>
        /\ fraud.fraud_score = R(78, 100)
        /\ fraud.risk_level = "HIGH"
        /\ fraud.is_likely_fake
        /\ InList("Fake email pattern", fraud.fraud_indicators)
        /\ InList("Fake phone pattern", fraud.fraud_indicators)
        /\ InList("Identical first and last name", fraud.fraud_indicators)
        /\ InList("Generic company name", fraud.fraud_indicators)

\* C5 witness: the call on the scenario lead returned
C5_Witness == Returned /\ lead = FakeLead /\ fraud.risk_level = "HIGH"

\* the tier the thresholds give a score n/d
TierOf(s) ==
    IF 10 * s.n >= 8 * s.d THEN "CRITICAL"
    ELSE IF 10 * s.n >= 6 * s.d THEN "HIGH"
    ELSE IF 10 * s.n >= 4 * s.d THEN "MEDIUM"
    ELSE IF 10 * s.n >= 2 * s.d THEN "LOW"
    ELSE "MINIMAL"

\* C10: the risk tier is the one the thresholds 0.8 / 0.6 / 0.4 / 0.2 give the
\* returned fraud score, and is_likely_fake holds exactly when the returned
\* score is >= 0.7
C10_TierOfReturnedScore ==
    Returned =>
        /\ fraud.risk_level = TierOf(fraud.fraud_score)
        /\ fraud.is_likely_fake <=> (10 * fraud.fraud_score.n >= 7 * fraud.fraud_score.d)

\* C10 witness: a returned score on a tier boundary (0.6, HIGH, not likely fake)
C10_Witness ==
    /\ Returned
    /\ fraud.fraud_score = R(6, 10)
    /\ fraud.risk_level = "HIGH"
    /\ ~fraud.is_likely_fake

-----------------------------------------------------------------------------
(* Properties of validate_lead (specification SpecValidate)                *)

Validated == pc = "validated" /\ result.exc = ""

\* what the external validators did with the lead's email and phone
EmailAccepted == result.validation_details["email"].is_valid
PhoneAccepted == result.validation_details["phone"].is_valid

GoodLead == MakeLead(E_jane, P_jane, N_Jane, N_Smith, C_Acme, ExtrasFull)

\* C7: for the second scenario lead, with email and phone accepted by the
\* external validators, quality >= 0.9, fraud <= 0.1, overall >= 0.8 and the
\* status is Good or Excellent
C7_GoodLead ==
    (pc = "validated" /\ lead = GoodLead) =>
        /\ result.exc = ""
        /\ (EmailAccepted /\ PhoneAccepted) =>
               /\ RGe(result.data_quality_score, R(9, 10))
               /\ RLe(result.fraud_score, R(1, 10))
               /\ RGe(result.overall_score, R(8, 10))
               /\ result.validation_status \in {"Good", "Excellent"}

\* C7 witness: the scenario lead validated with both validators accepting
C7_Witness ==
    /\ Validated /\ lead = GoodLead
    /\ EmailAccepted /\ PhoneAccepted
    /\ FilledCount(lead, REQUIRED_FIELDS) = 6
    /\ FilledCount(lead, IMPORTANT_FIELDS) = 6

\* C8: the overall score returned is 0.7 * data_quality_score
\* + 0.3 * (1 - fraud_score) of the same result
C8_OverallScore ==
    Validated =>
        result.overall_score =
            RAdd(RMul(R(7, 10), result.data_quality_score),
                 RMul(R(3, 10), RSub(One, result.fraud_score)))

\* C8 witness: a result whose quality and fraud scores are both strictly
\* between 0 and 1
C8_Witness ==
    /\ Validated
    /\ RLt(Zero, result.data_quality_score) /\ RLt(result.data_quality_score, One)
    /\ RLt(Zero, result.fraud_score) /\ RLt(result.fraud_score, One)

\* C11: for every lead validate_lead yields a result whose data_quality_score,
\* overall_score and six per-dimension sub-scores are all in [0,1] and whose
\* validation_status is one of the five tiers
C11_ScoresInUnitInterval ==
    pc = "validated" =>
        /\ result.exc = ""
        /\ InUnit(result.data_quality_score)
        /\ InUnit(result.overall_score)
        /\ \A k \in {"email", "phone", "name", "company", "completeness",
                      "data_quality"} :
               InUnit(result.validation_details[k].score)
        /\ result.validation_status \in
               {"Excellent", "Good", "Fair", "Poor", "Invalid"}

\* a field of the lead holds a string with a character that is not a blank
NonEmptyField(f) ==
    /\ lead[f].kind = "str"
    /\ \E i \in 1..Len(lead[f].s) : lead[f].s[i] \notin Whitespace

RequiredSet == {"FirstName", "LastName", "Email", "Phone", "Company", "Status"}
ImportantSet == {"Title", "Industry", "LeadSource", "City", "State", "Country"}

\* C12: the completeness score is 0.7 * (non-empty required fields / 6)
\* + 0.3 * (non-empty important fields / 6); each missing required field has
\* exactly one issue and no important field has any (a field holding only
\* blanks counts as empty)
C12_CompletenessScore ==
    LET c == _validate_completeness(lead)
        req == Cardinality({f \in RequiredSet : NonEmptyField(f)})
        imp == Cardinality({f \in ImportantSet : NonEmptyField(f)})
        IssuesOf(f) == {i \in 1..Len(c.issues) : c.issues[i][2] = f}
    IN  /\ c.score = R(7 * req + 3 * imp, 60)
        /\ Len(c.issues) = 6 - req
        /\ \A f \in RequiredSet :
               Cardinality(IssuesOf(f)) = IF NonEmptyField(f) THEN 0 ELSE 1
        /\ \A f \in ImportantSet : IssuesOf(f) = {}
        /\ Validated => result.validation_details["completeness"] = c

\* C12 witness: a validated lead with a required field missing, an important
\* field of blanks and a score strictly between 0 and 1
C12_Witness ==
    /\ Validated
    /\ ~NonEmptyField("LastName")
    /\ lead["City"] = X_blank
    /\ Len(result.validation_details["completeness"].issues) = 1
    /\ result.validation_details["completeness"].score = R(7 * 5 + 3 * 1, 60)

-----------------------------------------------------------------------------
(* Properties of _determine_validation_status (specification SpecStatus)   *)

\* the status the thresholds give a score n/d
StatusOf(s) ==
    IF 10 * s.n >= 9 * s.d THEN "Excellent"
    ELSE IF 10 * s.n >= 8 * s.d THEN "Good"
    ELSE IF 10 * s.n >= 6 * s.d THEN "Fair"
    ELSE IF 10 * s.n >= 4 * s.d THEN "Poor"
    ELSE "Invalid"

\* the tiers from worst to best
StatusRank(status) ==
    CASE status = "Invalid" -> 0
      [] status = "Poor" -> 1
      [] status = "Fair" -> 2
      [] status = "Good" -> 3
      [] status = "Excellent" -> 4

\* C9: the status is a function of the score alone, given by the thresholds
\* 0.9 / 0.8 / 0.6 / 0.4, and monotonic: a score at least as high never gets a
\* worse tier
C9_StatusMonotonic ==
    /\ \A p \in probes : p.status = StatusOf(p.score)
    /\ \A p, q \in probes :
           /\ p.score = q.score => p.status = q.status
           /\ RLe(p.score, q.score) => StatusRank(p.status) <= StatusRank(q.status)

\* C9 witness: two calls, on a score just below a threshold and on the threshold
C9_Witness ==
    \E p, q \in probes :
        /\ RLt(p.score, q.score)
        /\ q.score = R(8, 10)
        /\ p.status = "Fair" /\ q.status = "Good"

-----------------------------------------------------------------------------
(* Properties of _calculate_data_quality_score (specification SpecQuality) *)

\* twice the score of a present dimension (0, 1 or 2), 0 when unscored
TwiceScore(d, k) ==
    IF "score" \in DOMAIN d[k] THEN (2 * d[k].score.n) \div d[k].score.d ELSE 0

\* the weight, in hundredths, of a dimension if present, else 0
WeightIfPresent(d, k, w) == IF k \in DOMAIN d THEN w ELSE 0

\* the sum of the weights, in hundredths, of the present dimensions
WeightPresent(d) ==
    WeightIfPresent(d, "email", 30) + WeightIfPresent(d, "phone", 30)
    + WeightIfPresent(d, "name", 15) + WeightIfPresent(d, "company", 10)
    + WeightIfPresent(d, "completeness", 15)

\* twice the weighted sum, in hundredths, of the present dimensions' scores
TwiceWeightedSum(d) ==
    (IF "email" \in DOMAIN d THEN 30 * TwiceScore(d, "email") ELSE 0)
    + (IF "phone" \in DOMAIN d THEN 30 * TwiceScore(d, "phone") ELSE 0)
    + (IF "name" \in DOMAIN d THEN 15 * TwiceScore(d, "name") ELSE 0)
    + (IF "company" \in DOMAIN d THEN 10 * TwiceScore(d, "company") ELSE 0)
    + (IF "completeness" \in DOMAIN d THEN 15 * TwiceScore(d, "completeness") ELSE 0)

\* C13: the data-quality score is the weighted sum 0.30*email + 0.30*phone
\* + 0.15*name + 0.10*company + 0.15*completeness over the dimensions present,
\* divided by the sum of their weights, and 0 when none is present; the
\* generic data-quality and fraud dimensions do not enter it
C13_QualityScoreNormalised ==
    \A p \in probes :
        p.score = IF WeightPresent(p.details) = 0 THEN Zero
                  ELSE R(TwiceWeightedSum(p.details), 2 * WeightPresent(p.details))

\* C13 witness: a call with only some of the five dimensions, the generic
\* data-quality and fraud dimensions present, and a score fixed by the
\* normalisation (email 1, name 1/2: (0.30 + 0.075) / 0.45 = 5/6)
C13_Witness ==
    \E p \in probes :
        /\ DOMAIN p.details = {"email", "name", "data_quality", "fraud"}
        /\ p.details["email"] = [score |-> One]
        /\ p.details["name"] = [score |-> R(1, 2)]
        /\ p.score = R(5, 6)

-----------------------------------------------------------------------------
(* Properties of parse_description (specification SpecParse)               *)

\* the text holds no "===" at all
Headerless(description) == ~Contains(<<"=", "=", "=">>, description)

\* C14: a description with no  ===  section header gives no field in any of
\* the four sections and no payload, and the parse does not fail: the record
\* is the initial one, with only the description and the two empty dicts
C14_NoHeaderNoFields ==
    \A p \in probes :
        Headerless(p.description) /\ p.description # <<>> =>
            /\ _extract_lead_validation_section(p.description) = EmptyDict
            /\ _extract_phone_validation_section(p.description) = EmptyDict
            /\ _extract_email_validation_section(p.description) = EmptyDict
            /\ _extract_email_summary_section(p.description) = EmptyDict
            /\ _extract_raw_api_response(p.description) = JNone
            /\ p.parsed = InitialResult(p.description)

\* C14 witness: a parsed text that holds the labels of the sections, with
\* values, but no header
C14_Witness ==
    \E p \in probes :
        /\ p.description = T_Labels
        /\ Headerless(p.description)
        /\ re_search(lead_fields[1].label, lead_fields[1].group, p.description).matched
        /\ DOMAIN p.parsed = {"raw_description", "validation_sections", "raw_api_response"}

\* the n-th of the four text sections: its header, its declared fields and
\* what its extractor returns
SectionHeader(n) ==
    CASE n = 1 -> LEAD_HEADER [] n = 2 -> PHONE_HEADER
      [] n = 3 -> EMAIL_HEADER [] n = 4 -> SUMMARY_HEADER

SectionFields(n) ==
    CASE n = 1 -> lead_fields [] n = 2 -> phone_fields
      [] n = 3 -> email_fields [] n = 4 -> summary_fields

Extracted(n, description) ==
    CASE n = 1 -> _extract_lead_validation_section(description)
      [] n = 2 -> _extract_phone_validation_section(description)
      [] n = 3 -> _extract_email_validation_section(description)
      [] n = 4 -> _extract_email_summary_section(description)

\* the declared type of a field, as the kinds of value it may hold
DeclaredKinds(group) ==
    CASE group \in {"digits", "percent"} -> {"int"}
      [] group = "bool" -> {"bool"}
      [] OTHER -> {"str", "none"}

\* the text a stored value was read from, in lower case
ValueText(v) ==
    CASE v.kind = "bool" -> IF v.s = <<"1">> THEN <<"t", "r", "u", "e">>
                            ELSE <<"f", "a", "l", "s", "e">>
      [] v.kind = "none" -> <<"n", "u", "l", "l">>
      [] OTHER -> lower(v.s)

\* the value stands on the line of an occurrence of the label, after it
OnLabelLine(label, content, v) ==
    \E i \in Occurrences(lower(label), lower(content), 1) :
        Contains(ValueText(v),
                 lower(SubSeq(content, i + Len(label),
                              LineEnd(content, i + Len(label)))))

\* C15: in each of the four sections, a declared field whose label pattern
\* matches in the section body is in the section's field set with its
\* declared type, its value taken from the label's own line; a field whose
\* pattern does not match is not in the field set
C15_FieldsFromOwnLine ==
    \A p \in probes : \A n \in 1..4 :
        LET section == SectionContent(SectionHeader(n), p.description)
            fields == SectionFields(n)
            extracted == Extracted(n, p.description)
        IN  \A i \in 1..Len(fields) :
                IF /\ section.matched
                   /\ re_search(fields[i].label, fields[i].group, section.group).matched
                THEN /\ fields[i].field \in DOMAIN extracted
                     /\ extracted[fields[i].field].kind \in DeclaredKinds(fields[i].group)
                     /\ OnLabelLine(fields[i].label, section.group,
                                    extracted[fields[i].field])
                ELSE fields[i].field \notin DOMAIN extracted

\* C16: in each of the four sections, a field that is neither boolean nor
\* numeric and whose extracted value is  null , in any case, is stored as
\* None, not as the string "null"
C16_NullStoredAsNone ==
    \A p \in probes : \A n \in 1..4 :
        LET section == SectionContent(SectionHeader(n), p.description)
            fields == SectionFields(n)
            extracted == Extracted(n, p.description)
        IN  \A i \in 1..Len(fields) :
                /\ fields[i].group \in {"word", "rest"}
                /\ section.matched
                /\ lower(strip(re_search(fields[i].label, fields[i].group,
                                         section.group).group))
                       = <<"n", "u", "l", "l">>
                => /\ fields[i].field \in DOMAIN extracted
                   /\ extracted[fields[i].field] = JNone

\* the description holds a payload section whose body decodes to an object
DecodedObject(description) ==
    LET section == SectionContent(RAW_HEADER, description)
        decoded == json_loads(_clean_json_content(section.group))
    IN  section.matched /\ decoded.ok /\ decoded.val.kind = "dict"

\* a leaf field of the email aggregate is present in the payload
HasSummaryLeaf(payload, leaf) ==
    /\ HasKey(payload, K_emailSummary)
    /\ Lookup(payload, K_emailSummary).kind = "dict"
    /\ HasKey(Lookup(payload, K_emailSummary), leaf)

\* C17: for a payload that decodes, the flattened output holds the key
\* api_<name> of every mapped field present in the payload (directly mapped
\* fields, the four leaf fields of the email aggregate, the three arrays
\* joined into one string), and no key, not even one holding None, for a
\* mapped field that is absent
C17_FlattenedKeys ==
    \A p \in probes :
        DecodedObject(p.description) =>
            LET payload == _extract_raw_api_response(p.description)
            IN  /\ \A i \in 1..Len(field_mappings) :
                       IF HasKey(payload, field_mappings[i].api_field)
                       THEN /\ field_mappings[i].new_field \in DOMAIN p.parsed
                            /\ p.parsed[field_mappings[i].new_field]
                                   = Lookup(payload, field_mappings[i].api_field)
                       ELSE field_mappings[i].new_field \notin DOMAIN p.parsed
                /\ \A i \in 1..Len(summary_mappings) :
                       IF HasSummaryLeaf(payload, summary_mappings[i].api_field)
                       THEN /\ summary_mappings[i].new_field \in DOMAIN p.parsed
                            /\ p.parsed[summary_mappings[i].new_field]
                                   = Lookup(Lookup(payload, K_emailSummary),
                                            summary_mappings[i].api_field)
                       ELSE summary_mappings[i].new_field \notin DOMAIN p.parsed
                /\ \A i \in 1..Len(array_mappings) :
                       IF HasKey(payload, array_mappings[i].api_field)
                       THEN /\ array_mappings[i].new_field \in DOMAIN p.parsed
                            /\ p.parsed[array_mappings[i].new_field].kind = "str"
                       ELSE array_mappings[i].new_field \notin DOMAIN p.parsed

\* the description holds a payload section whose body does not decode
DecodeFails(description) ==
    LET section == SectionContent(RAW_HEADER, description)
    IN  section.matched /\ ~json_loads(_clean_json_content(section.group)).ok

\* the value is the marker of a decode failure: a message and the text given
IsMarker(v, raw_content) ==
    /\ v.kind = "dict" /\ Len(v.items) = 2
    /\ v.items[1].key = K_json_parse_error
    /\ v.items[1].val.kind = "str" /\ v.items[1].val.s # <<>>
    /\ v.items[2] = Pair(K_raw_content, JStr(raw_content))

\* the parse returned the record of its success path with the marker as the
\* payload: nothing was raised
MarkerKept(p, raw_content) ==
    /\ "parse_error" \notin DOMAIN p.parsed
    /\ "raw_api_response" \in DOMAIN p.parsed
    /\ IsMarker(p.parsed["raw_api_response"], raw_content)

\* C18 as stated: when the body of the payload section does not decode, the
\* parser does not raise and returns a marker with the decode error message
\* and the substring from the first { to the last } of the body
C18_Original ==
    \A p \in probes :
        DecodeFails(p.description) =>
            LET body == SectionContent(RAW_HEADER, p.description).group
                first == Find(<<"{">>, body, 1)
                last == RFind(<<"}">>, body)
            IN  /\ first # 0 /\ last # 0
                /\ MarkerKept(p, SubSeq(body, first, last))

\* C18, amended: when the body of the payload section does not decode, the
\* parser does not raise and returns a marker with the decode error message
\* and the text that was given to the decoder: the substring from the first
\* { to the last } when the body holds both (empty when the last } comes
\* before the first {), and the whole stripped body otherwise
C18_MarkerOnDecodeFailure ==
    \A p \in probes :
        DecodeFails(p.description) =>
            LET body == SectionContent(RAW_HEADER, p.description).group
                first == Find(<<"{">>, body, 1)
                last == RFind(<<"}">>, body)
            IN  MarkerKept(p, IF first = 0 \/ last = 0 THEN body
                              ELSE IF last < first THEN <<>>
                              ELSE SubSeq(body, first, last))

\* C18 witness: a parsed description whose payload body has no brace and
\* does not decode; the marker holds the whole body
C18_Witness ==
    \E p \in probes :
        /\ DecodeFails(p.description)
        /\ ~Contains(<<"{">>, SectionContent(RAW_HEADER, p.description).group)
        /\ SectionContent(RAW_HEADER, p.description).group # <<>>
        /\ MarkerKept(p, SectionContent(RAW_HEADER, p.description).group)

\* the two shapes of a record of parse_description
FailureShape(r) ==
    /\ DOMAIN r = {"parse_error", "raw_description"}
    /\ r["parse_error"].kind = "str" /\ r["parse_error"].s # <<>>

SuccessShape(r) ==
    /\ "parse_error" \notin DOMAIN r
    /\ {"raw_description", "validation_sections", "raw_api_response"} \subseteq DOMAIN r

\* the fields the four text sections of a description give
SectionFieldNames(description) ==
    UNION {DOMAIN Extracted(n, description) : n \in 1..4}

\* C20: the record of a non-empty description is either a failure record,
\* with a populated parse_error and neither section fields nor api_ fields,
\* or a success record, with no parse_error and the fields that could be
\* extracted; a description that only lacks sections gives a success record
C20_TwoShapes ==
    \A p \in probes :
        p.description # <<>> =>
            /\ FailureShape(p.parsed) \/ SuccessShape(p.parsed)
            /\ p.parsed["raw_description"] = JStr(p.description)
            /\ SuccessShape(p.parsed) =>
                   SectionFieldNames(p.description) \subseteq DOMAIN p.parsed
            /\ ~SectionContent(RAW_HEADER, p.description).matched =>
                   /\ SuccessShape(p.parsed)
                   /\ DOMAIN p.parsed = DOMAIN InitialResult(p.description)
                                          \cup SectionFieldNames(p.description)
            /\ FailureShape(p.parsed) =>
                   /\ SectionContent(RAW_HEADER, p.description).matched
                   /\ ~DecodeFails(p.description)

\* C20 witness: a failure record of a description whose text sections hold
\* fields, and whose payload decodes
C20_Witness ==
    \E p \in probes :
        /\ FailureShape(p.parsed)
        /\ SectionFieldNames(p.description) # {}
        /\ DecodedObject(p.description)

-----------------------------------------------------------------------------
(* Properties of the batch and the summary view (specification SpecBatch)  *)

\* C19: a task whose payload is present but does not decode is retained,
\* with its raw description, and is excluded from scoring: the tally of the
\* batch counts it neither as high nor as low quality, and the summary view
\* of the dashboard does not show it
C19_DecodeFailureExcluded ==
    pc = "loaded" =>
        \A i \in 1..Len(etl.tasks_df) :
            DecodeFails(etl.tasks_df[i].Description) =>
                /\ etl.tasks_df[i].Id.s \in DOMAIN etl.parsed_validations
                /\ etl.parsed_validations[etl.tasks_df[i].Id.s]["raw_description"]
                       = JStr(etl.tasks_df[i].Description)
                /\ RowTally(etl.parsed_df, i)
                       \notin {"high_quality_leads", "low_quality_leads"}
                /\ \A row \in etl.summary : row.task_id # etl.tasks_df[i].Id

\* the tasks of the batch whose parse failed
FailedTasks ==
    {i \in 1..Len(etl.tasks_df) :
        FailureShape(parse_description(etl.tasks_df[i].Description))}

\* the records of the batch that carry a populated error field
ErrorRecords ==
    {i \in 1..Len(etl.parsed_df) :
        /\ "parse_error" \in DOMAIN etl.parsed_df[i]
        /\ etl.parsed_df[i]["parse_error"].kind = "str"
        /\ etl.parsed_df[i]["parse_error"].s # <<>>}

\* C21: parsing a batch of N tasks of which K fail gives N records, K of them
\* with a populated error field, and a parsing_errors counter of K
C21_BatchCounts ==
    pc \in {"saved", "loaded"} =>
        /\ Len(etl.parsed_df) = Len(etl.tasks_df)
        /\ ErrorRecords = FailedTasks
        /\ etl.results.parsing_errors = Cardinality(FailedTasks)


-----------------------------------------------------------------------------
(* Several runs of the pipeline on one database: probes is the sequence of *)
(* the runs so far, each with the tasks extracted and the records parsed   *)

MaxRuns == 2

\* the descriptions a task has at a run: sections and payload, only a
\* section, only a payload, a payload that does not decode, plain text
RunDescriptions ==
    {T_LeadFull \o R_Full, T_LeadFull, R_PartSummary, T_LeadFull \o R_Malformed,
     T_Plain}

\* each run extracts one task, with one of two Ids
RunBatches ==
    {<<[Id |-> id, Description |-> d]>> :
        id \in {TaskId(1), TaskId(2)}, d \in RunDescriptions}

InitRuns ==
    /\ lead = EmptyLead
    /\ pc = "etl"
    /\ fraud = NotCalled
    /\ result = NotCalled
    /\ probes = <<>>
    /\ etl = FreshETL

Ran(self, tasks_df) ==
    /\ etl' = self
    /\ probes' = Append(probes, [tasks_df |-> tasks_df, parsed_df |-> self.parsed_df])

RunAgain(tasks_df) ==
    /\ Len(probes) < MaxRuns
    /\ Ran(run_full_pipeline(etl, tasks_df), tasks_df)
    /\ pc' = "saved"
    /\ UNCHANGED <<lead, fraud, result>>

NextRuns ==
    \/ \E tasks_df \in RunBatches : RunAgain(tasks_df)

SpecRuns == InitRuns /\ [][NextRuns]_vars

\* the runs that parsed a record with the task id
RunsOf(id) ==
    {r \in 1..Len(probes) :
        \E i \in 1..Len(probes[r].parsed_df) : probes[r].parsed_df[i]["task_id"] = JStr(id)}

\* the record of the task id in the most recent run that parsed one
LatestRecord(id) ==
    LET r == CHOOSE r \in RunsOf(id) : \A q \in RunsOf(id) : q <= r
    IN  probes[r].parsed_df[CHOOSE i \in 1..Len(probes[r].parsed_df) :
                                probes[r].parsed_df[i]["task_id"] = JStr(id)]

\* the cell of a column in a record: NULL when the record has none
Cell(record, c) ==
    IF c \in DOMAIN record /\ notna(record[c]) THEN record[c] ELSE JNone

\* C24: after any sequence of runs the store holds one row per task id that
\* was saved, and every column of the row comes from the record of the most
\* recent run that included the id
C24_LatestRunWins ==
    /\ DOMAIN etl.parsed_validations = {id \in {TaskId(1).s, TaskId(2).s} : RunsOf(id) # {}}
    /\ \A id \in DOMAIN etl.parsed_validations :
           \A c \in StoredColumns :
               etl.parsed_validations[id][c] = Cell(LatestRecord(id), c)

\* what does hold: one row per task id saved, whose task_id, raw_description
\* and Task metadata come from the most recent run, as does every column the
\* records of that run have
C24_Rest ==
    /\ DOMAIN etl.parsed_validations = {id \in {TaskId(1).s, TaskId(2).s} : RunsOf(id) # {}}
    /\ \A id \in DOMAIN etl.parsed_validations :
           \A c \in StoredColumns :
               c \in DOMAIN LatestRecord(id) =>
                   etl.parsed_validations[id][c] = Cell(LatestRecord(id), c)

-----------------------------------------------------------------------------
(* The same function applied again: probes is the sequence of the calls    *)
(* made so far, the clock reading at a call being its position             *)

MaxCalls == 3

\* the dict validate_lead returns when called at the clock reading now: the
\* lead's Id (the leads of the model have none) and pd.Timestamp.now() next
\* to the scores
validate_lead_at(lead_data, now, email_accepted, phone_outcome) ==
    IF validate_lead(lead_data, email_accepted, phone_outcome).exc # ""
    THEN validate_lead(lead_data, email_accepted, phone_outcome)
    ELSE Update(validate_lead(lead_data, email_accepted, phone_outcome),
                [lead_id |-> "Unknown", validation_timestamp |-> now])

CallLeads ==
    {MakeLead(E_jane, P_jane, N_Jane, N_Smith, C_Acme, ExtrasFull),
     MakeLead(E_test123, P_1234567890, N_Test, N_A, C_test, ExtrasNone),
     MakeLead(Empty, PyNone, N_A, N_Smith, C_AB, ExtrasNone)}
CallDescriptions == {T_LeadFull \o R_PartSummary, T_LeadFull \o R_Malformed}

InitCalls ==
    /\ lead = EmptyLead
    /\ pc = "start"
    /\ fraud = NotCalled
    /\ result = NotCalled
    /\ probes = <<>>
    /\ etl = FreshETL

Called(op, input, out) ==
    /\ Len(probes) < MaxCalls
    /\ probes' = Append(probes, [op |-> op, input |-> input, out |-> out])
    /\ UNCHANGED <<lead, pc, fraud, result, etl>>

CallParseDescription(description) ==
    Called("parse_description", description, parse_description(description))

CallCalculateFraudScore(lead_data) ==
    Called("calculate_fraud_score", lead_data, calculate_fraud_score(lead_data))

\* email_validator accepts no address without an '@' and looks the domain up
\* at each call; phonenumbers gives one outcome per number, and an absent
\* email or phone never reaches a validator
CallValidateLead(lead_data, email_accepted, phone_outcome) ==
    /\ email_accepted => Truthy(Get(lead_data, "Email"))
                         /\ count(lead_data["Email"].s, "@") > 0
    /\ phone_outcome = IF ~Truthy(Get(lead_data, "Phone")) THEN "invalid"
                       ELSE IF lead_data["Phone"] = P_jane THEN "valid"
                       ELSE "invalid"
    /\ Called("validate_lead",
              [lead_data |-> lead_data, email_accepted |-> email_accepted],
              validate_lead_at(lead_data, Len(probes) + 1, email_accepted, phone_outcome))

NextCalls ==
    \/ \E description \in CallDescriptions : CallParseDescription(description)
    \/ \E lead_data \in CallLeads : CallCalculateFraudScore(lead_data)
    \/ \E lead_data \in CallLeads, a \in BOOLEAN, o \in PhoneOutcomes :
           CallValidateLead(lead_data, a, o)

SpecCalls == InitCalls /\ [][NextCalls]_vars

\* C25: a function applied twice to the same input record gives identical
\* output records, whenever the calls are made and whatever was processed
\* in between
C25_Deterministic ==
    \A i, j \in 1..Len(probes) :
        probes[i].op = probes[j].op /\ probes[i].input = probes[j].input
        => probes[i].out = probes[j].out

\* a record without its timestamp
Untimed(out) == [k \in DOMAIN out \ {"validation_timestamp"} |-> out[k]]

\* parse_description and calculate_fraud_score do give identical records,
\* and two records of validate_lead for the same lead and the same answer of
\* the email validator differ in validation_timestamp only
C25_Rest ==
    \A i, j \in 1..Len(probes) :
        probes[i].op = probes[j].op /\ probes[i].input = probes[j].input
        => Untimed(probes[i].out) = Untimed(probes[j].out)
           /\ (probes[i].op # "validate_lead" => probes[i].out = probes[j].out)

-----------------------------------------------------------------------------
(* LeadValidationETL.extract_validation_tasks on the records the query     *)
(* returned, then parse_validation_data on its result                      *)

\* the flattened Who data: one row per record, in the order of the records
WhoData(records) ==
    [i \in 1..Len(records) |->
        IF records[i].Who # JNone
        THEN [WhoId |-> records[i].WhoId,
              LeadSource |-> records[i].Who.LeadSource,
              Company |-> records[i].Who.Company,
              Email |-> records[i].Who.Email]
        ELSE [WhoId |-> records[i].WhoId,
              LeadSource |-> JNone, Company |-> JNone, Email |-> JNone]]

\* the rows of a left merge for one task: one for every row of who_df with
\* the task's WhoId (a missing WhoId matches a missing WhoId)
RECURSIVE MergeRows(_, _)
MergeRows(task, who_df) ==
    IF who_df = <<>> THEN <<>>
    ELSE (IF Head(who_df).WhoId = task.WhoId
          THEN <<[Id |-> task.Id, WhoId |-> task.WhoId,
                  Description |-> task.Description,
                  LeadSource |-> Head(who_df).LeadSource,
                  Company |-> Head(who_df).Company,
                  Email |-> Head(who_df).Email]>>
          ELSE <<>>)
         \o MergeRows(task, Tail(who_df))

\* tasks_df.merge(who_df, on='WhoId', how='left')
RECURSIVE merge(_, _)
merge(tasks_df, who_df) ==
    IF tasks_df = <<>> THEN <<>>
    ELSE MergeRows(Head(tasks_df), who_df) \o merge(Tail(tasks_df), who_df)

\* extract_validation_tasks once the records are fetched
extract_validation_tasks(records) == merge(records, WhoData(records))

MaxRecords == 3

\* the Id of a lead or contact, and the lead fields of the query
WhoIds == {JNone, JStr(<<"0", "0", "Q", "A">>), JStr(<<"0", "0", "Q", "B">>)}
WhoInfo ==
    [LeadSource |-> JStr(<<"W", "e", "b">>), Company |-> JStr(<<"A", "c", "m", "e">>),
     Email |-> JStr(<<"j", "@", "a", ".", "i", "o">>)]

\* the records of a query result: distinct task Ids, any WhoId, with or
\* without the lead fields
FetchedRecords ==
    UNION {{[i \in 1..n |-> [Id |-> TaskId(i), WhoId |-> w[i], Who |-> o[i],
                             Description |-> T_Plain]] :
               w \in [1..n -> WhoIds], o \in [1..n -> {JNone, WhoInfo}]} :
           n \in 1..MaxRecords}

InitExtract ==
    /\ lead = EmptyLead
    /\ pc = "start"
    /\ fraud = NotCalled
    /\ result = NotCalled
    /\ probes = {}
    /\ etl = FreshETL

ExtractValidationTasks(records) ==
    /\ pc = "start"
    /\ pc' = "extracted"
    /\ probes' = {[records |-> records]}
    /\ etl' = [etl EXCEPT !.tasks_df = extract_validation_tasks(records)]
    /\ UNCHANGED <<lead, fraud, result>>

Parsed(self, parsed) ==
    [self EXCEPT !.parsed_df = parsed.parsed_df, !.results = parsed.results]

ParseValidationData ==
    /\ pc = "extracted"
    /\ pc' = "parsed"
    /\ etl' = Parsed(etl, parse_validation_data(etl.results, etl.tasks_df))
    /\ UNCHANGED <<lead, fraud, result, probes>>

NextExtract ==
    \/ \E records \in FetchedRecords : ExtractValidationTasks(records)
    \/ ParseValidationData

SpecExtract == InitExtract /\ [][NextExtract]_vars

\* the rows of a frame are the fetched records, one each and in order
OnePerRecord(df, id, records) ==
    /\ Len(df) = Len(records)
    /\ \A i \in 1..Len(records) : df[i][id] = records[i].Id

\* C27: the pipeline produces exactly one normalized record per fetched task
\* record, each with its own task id, also when tasks share a WhoId
C27_OneRecordPerTask ==
    \A p \in probes :
        /\ pc \in {"extracted", "parsed"} => OnePerRecord(etl.tasks_df, "Id", p.records)
        /\ pc = "parsed" => OnePerRecord(etl.parsed_df, "task_id", p.records)

\* it does when no two of the fetched records have the same WhoId, and
\* parse_batch always gives one record per row of the extraction
C27_Rest ==
    \A p \in probes :
        /\ (\A i, j \in 1..Len(p.records) :
                i # j => p.records[i].WhoId # p.records[j].WhoId)
           => /\ pc \in {"extracted", "parsed"} =>
                     OnePerRecord(etl.tasks_df, "Id", p.records)
              /\ pc = "parsed" => OnePerRecord(etl.parsed_df, "task_id", p.records)
        /\ pc = "parsed" => OnePerRecord(etl.parsed_df, "task_id", etl.tasks_df)

-----------------------------------------------------------------------------
(* The batch operations of the two engines                                 *)

\* what a batch call gives: the exception that left it, or a frame of rows
BatchFrame(rows) ==
    IF \E i \in 1..Len(rows) : rows[i].exc # ""
    THEN [exc |-> rows[CHOOSE i \in 1..Len(rows) :
                           /\ rows[i].exc # ""
                           /\ \A j \in 1..(i - 1) : rows[j].exc = ""].exc,
          rows |-> <<>>]
    ELSE [exc |-> "", rows |-> rows]

\* batch_fraud_detection: the loop has no handler, so the first lead whose
\* scoring raises ends the call; the results of the loop are computed first,
\* the frame is made of them afterwards
RECURSIVE FraudRows(_)
FraudRows(leads_df) ==
    IF leads_df = <<>> THEN <<>>
    ELSE <<calculate_fraud_score(Head(leads_df))>> \o FraudRows(Tail(leads_df))

batch_fraud_detection(leads_df) ==
    BatchFrame(CHOOSE fraud_results \in {FraudRows(leads_df)} : TRUE)

\* validate_batch, given what the external validators do with each lead
RECURSIVE ValidateRows(_, _, _)
ValidateRows(leads_df, email_accepted, phone_outcome) ==
    IF leads_df = <<>> THEN <<>>
    ELSE <<validate_lead(Head(leads_df), Head(email_accepted), Head(phone_outcome))>>
         \o ValidateRows(Tail(leads_df), Tail(email_accepted), Tail(phone_outcome))

validate_batch(leads_df, email_accepted, phone_outcome) ==
    BatchFrame(CHOOSE validation_results \in
                   {ValidateRows(leads_df, email_accepted, phone_outcome)} : TRUE)

\* the rows of the frames of leads: every row has the five core columns, a
\* missing value being None
MaxLeads == 2
FrameLeads ==
    {MakeLead(E_jane, P_jane, N_Jane, N_Smith, C_Acme, ExtrasNone),
     MakeLead(E_test123, P_1234567890, N_Test, N_A, C_test, ExtrasNone),
     MakeLead(E_gmail, PyNone, N_Bob, N_Doe, C_AB, ExtrasNone),
     MakeLead(PyNone, P_jane, N_Jane, N_Smith, C_Acme, ExtrasNone),
     MakeLead(E_jane, P_fives, Empty, N_Smith, PyNone, ExtrasNone)}
LeadFrames == UNION {[1..n -> FrameLeads] : n \in 1..MaxLeads}

InitEngines ==
    /\ lead = EmptyLead
    /\ pc = "start"
    /\ fraud = NotCalled
    /\ result = NotCalled
    /\ probes = {}
    /\ etl = FreshETL

BatchFraudDetection(leads_df) ==
    /\ pc = "start"
    /\ probes' = {[op |-> "batch_fraud_detection", leads_df |-> leads_df,
                   out |-> batch_fraud_detection(leads_df)]}
    /\ pc' = "batch"
    /\ UNCHANGED <<lead, fraud, result, etl>>

\* email_validator accepts no address without an '@'; an absent email or
\* phone never reaches a validator
ValidateBatch(leads_df, email_accepted, phone_outcome) ==
    /\ pc = "start"
    /\ \A i \in 1..Len(leads_df) :
           /\ email_accepted[i] =>
                  Truthy(Get(leads_df[i], "Email"))
                  /\ count(leads_df[i]["Email"].s, "@") > 0
           /\ ~Truthy(Get(leads_df[i], "Phone")) => phone_outcome[i] = "invalid"
    /\ probes' = {[op |-> "validate_batch", leads_df |-> leads_df,
                   out |-> validate_batch(leads_df, email_accepted, phone_outcome)]}
    /\ pc' = "batch"
    /\ UNCHANGED <<lead, fraud, result, etl>>

NextEngines ==
    \/ \E leads_df \in LeadFrames : BatchFraudDetection(leads_df)
    \/ \E leads_df \in LeadFrames :
           \E email_accepted \in [1..Len(leads_df) -> BOOLEAN],
              phone_outcome \in [1..Len(leads_df) -> PhoneOutcomes] :
               ValidateBatch(leads_df, email_accepted, phone_outcome)

SpecEngines == InitEngines /\ [][NextEngines]_vars

\* C22: no exception raised while processing one record propagates out of a
\* batch operation: validate_batch and batch_fraud_detection return one row
\* per lead of the frame
C22_NoExceptionPropagates ==
    \A p \in probes :
        /\ p.out.exc = ""
        /\ Len(p.out.rows) = Len(p.leads_df)

\* the batch calls in which every lead has an email, a first and a last name
\* that are strings do return one row per lead
C22_Rest ==
    \A p \in probes :
        (\A i \in 1..Len(p.leads_df) :
            \A k \in {"Email", "FirstName", "LastName"} :
                p.leads_df[i][k].kind = "str")
        => /\ p.out.exc = ""
           /\ Len(p.out.rows) = Len(p.leads_df)


\* the records of the batch that have a task id
Identified ==
    {i \in 1..Len(etl.parsed_df) :
        notna(etl.parsed_df[i]["task_id"]) /\ etl.parsed_df[i]["task_id"] # JStr(<<>>)}

\* C23: a record whose task id is absent or empty is never written to
\* storage: the save does not fail because of it, no row is stored without
\* a task id, and the other records of the batch are stored
C23_MissingIdDropped ==
    pc \in {"saved", "loaded"} =>
        /\ etl.exc = ""
        /\ \A id \in DOMAIN etl.parsed_validations :
               id # <<>> /\ etl.parsed_validations[id]["task_id"] = JStr(id)
        /\ \A i \in Identified :
               /\ etl.parsed_df[i]["task_id"].s \in DOMAIN etl.parsed_validations
               /\ etl.parsed_validations[etl.parsed_df[i]["task_id"].s]["raw_description"]
                      = etl.parsed_df[i]["raw_description"]

\* the same holds of the batches in which every task has an Id or an empty
\* one: the record of the task with the empty Id is not stored in
\* parsed_validations, the others are
C23_Rest ==
    pc \in {"saved", "loaded"}
    /\ (\A i \in 1..Len(etl.tasks_df) : notna(etl.tasks_df[i].Id))
    => /\ etl.exc = ""
       /\ \A id \in DOMAIN etl.parsed_validations :
              id # <<>> /\ etl.parsed_validations[id]["task_id"] = JStr(id)
       /\ \A i \in Identified :
              etl.parsed_df[i]["task_id"].s \in DOMAIN etl.parsed_validations


\* the records of the batch that are stored, have no parse error, and have
\* both a section-derived and a payload-derived quality score
BothScores ==
    {i \in Identified :
        /\ etl.exc = ""
        /\ "parse_error" \notin DOMAIN etl.parsed_df[i]
        /\ {"quality_score", "api_quality_score"} \subseteq DOMAIN etl.parsed_df[i]
        /\ etl.parsed_df[i]["quality_score"].kind = "int"
        /\ etl.parsed_df[i]["api_quality_score"].kind = "int"}

\* the counter of the tally for a score
TallyOf(score) ==
    IF IntOf(score.s) >= high_quality_threshold
    THEN "high_quality_leads" ELSE "low_quality_leads"

\* C26: the tally of the batch and the summary of the dashboard classify a
\* record that has both scores from the same value, the payload-derived one
C26_SamePreference ==
    pc = "loaded" =>
        \A i \in BothScores :
            /\ RowTally(etl.parsed_df, i) = TallyOf(etl.parsed_df[i]["api_quality_score"])
            /\ \E row \in etl.summary :
                   /\ row.task_id = etl.parsed_df[i]["task_id"]
                   /\ row.overall_score = etl.parsed_df[i]["api_quality_score"]

\* the two consumers each have a fixed order, but not the same one: the
\* dashboard takes the payload-derived score first, the tally the
\* section-derived one
C26_Rest ==
    pc = "loaded" =>
        \A i \in BothScores :
            /\ RowTally(etl.parsed_df, i) = TallyOf(etl.parsed_df[i]["quality_score"])
            /\ \E row \in etl.summary :
                   /\ row.task_id = etl.parsed_df[i]["task_id"]
                   /\ row.overall_score = etl.parsed_df[i]["api_quality_score"]


-----------------------------------------------------------------------------
(* The domain typo heuristic (specification SpecValidate)                  *)

\* the email dimension of a lead whose address the validator accepted
AcceptedEmail ==
    pc = "validated" /\ result.exc = "" /\ result.validation_details.email.is_valid

EmailDomain == lower(SplitAt1(lead["Email"].s))

\* C28: an accepted email whose domain is one of the common provider domains
\* is not flagged as a possible domain typo and gets no x0.8 penalty
C28_ExactDomainNotFlagged ==
    AcceptedEmail /\ InList(EmailDomain, common_domains) =>
        /\ ~InList("Possible domain typo", result.validation_details.email.issues)
        /\ result.validation_details.email.score = One

\* the flag and the penalty go together, and are given exactly when the
\* similarity of the domain to some provider domain is in [60, 90), whether
\* or not the domain is itself a provider domain
C28_Rest ==
    AcceptedEmail /\ count(lead["Email"].s, "@") = 1 =>
        /\ InList("Possible domain typo", result.validation_details.email.issues)
           <=> \E i \in 1..Len(common_domains) :
                   /\ 60 <= ratio(EmailDomain, common_domains[i])
                   /\ ratio(EmailDomain, common_domains[i]) < 90
        /\ result.validation_details.email.score
               = IF InList("Possible domain typo", result.validation_details.email.issues)
                 THEN R(8, 10) ELSE One


-----------------------------------------------------------------------------
(* The tally of parse_validation_data (specification SpecBatch)            *)

\* the records of the batch without a parse error
NonError == {i \in 1..Len(etl.parsed_df) : "parse_error" \notin DOMAIN etl.parsed_df[i]}

\* a record has a score under the key
Available(record, key) == key \in DOMAIN record /\ record[key].kind = "int"

\* the score the tally is said to use: the section score if available,
\* otherwise the payload score
PreferredScore(record) ==
    IF Available(record, "quality_score") THEN record["quality_score"]
    ELSE record["api_quality_score"]

Counted ==
    etl.results.high_quality_leads + etl.results.low_quality_leads
    + etl.results.parsing_errors

\* C29: every record without a parse error that has one of the two scores is
\* counted once, as high or low quality by its section score if it has one
\* and by its payload score otherwise; the three counters add up to at most
\* validations_parsed, and to exactly that when every such record has a score
C29_TallyCountsEveryScore ==
    pc \in {"saved", "loaded"} /\ etl.parsed_df # <<>> =>
        /\ \A i \in NonError :
               Available(etl.parsed_df[i], "quality_score")
               \/ Available(etl.parsed_df[i], "api_quality_score")
               => RowTally(etl.parsed_df, i) = TallyOf(PreferredScore(etl.parsed_df[i]))
        /\ Counted <= etl.results.validations_parsed
        /\ (\A i \in NonError :
                Available(etl.parsed_df[i], "quality_score")
                \/ Available(etl.parsed_df[i], "api_quality_score"))
           => Counted = etl.results.validations_parsed

\* what holds: the counters add up to at most validations_parsed; a record
\* with a section score other than 0 is counted by it; a record without one
\* is counted by its payload score when no record of the batch has a section
\* score, and is not counted when another record has one
C29_Rest ==
    pc \in {"saved", "loaded"} /\ etl.parsed_df # <<>> =>
        /\ Counted <= etl.results.validations_parsed
        /\ \A i \in NonError :
               /\ Available(etl.parsed_df[i], "quality_score")
                  /\ IntOf(etl.parsed_df[i]["quality_score"].s) # 0
                  => RowTally(etl.parsed_df, i) = TallyOf(etl.parsed_df[i]["quality_score"])
               /\ "quality_score" \notin DOMAIN etl.parsed_df[i]
                  /\ Available(etl.parsed_df[i], "api_quality_score")
                  => RowTally(etl.parsed_df, i) =
                         IF "quality_score" \in Columns(etl.parsed_df) THEN "none"
                         ELSE TallyOf(etl.parsed_df[i]["api_quality_score"])


-----------------------------------------------------------------------------
(* The cap of calculate_fraud_score (specification Spec)                   *)

\* the weighted sum of the five sub-scores of the lead, before the cap
UncappedSum ==
    R(30 * Hundredths(EmailSub) + 25 * Hundredths(PhoneSub)
      + 20 * Hundredths(NameSub) + 15 * Hundredths(CompanySub)
      + 10 * Hundredths(ConsistencySub), 10000)

\* C30: the uncapped weighted sum is at most 0.83, so the cap at 1.0 leaves
\* it as it is and tier and verdict agree with the returned score; a lead
\* that is likely fake is HIGH or CRITICAL, and a CRITICAL lead is likely fake
C30_CapNeverApplies ==
    Returned =>
        /\ RLe(UncappedSum, R(83, 100))
        /\ fraud.fraud_score = UncappedSum
        /\ fraud.risk_level = TierOf(fraud.fraud_score)
        /\ fraud.is_likely_fake <=> RGe(fraud.fraud_score, R(7, 10))
        /\ fraud.is_likely_fake => fraud.risk_level \in {"HIGH", "CRITICAL"}
        /\ fraud.risk_level = "CRITICAL" => fraud.is_likely_fake

\* C30 witness: a lead with the largest value of every sub-score, 0.83 in
\* all, CRITICAL and likely fake
C30_Witness ==
    /\ Returned
    /\ EmailSub = One /\ PhoneSub = One /\ NameSub = R(8, 10)
    /\ CompanySub = R(6, 10) /\ ConsistencySub = R(3, 10)
    /\ fraud.fraud_score = R(83, 100)
    /\ fraud.risk_level = "CRITICAL"
    /\ fraud.is_likely_fake

=============================================================================
